---- MODULE Spec2Model ----
(***************************************************************************)
(* A model of the facmod mod cache (package mods, type Cache) and of the   *)
(* facmod commands built on it.                                            *)
(*                                                                         *)
(* Text values that the code inspects character by character (mod names,   *)
(* search terms, factorio_version) are sequences of one-character strings. *)
(* The three tables of the cache database are bags of rows: the PRIMARY    *)
(* KEY of a table is kept by the statements that write it, not by the      *)
(* representation.                                                         *)
(***************************************************************************)
EXTENDS Bags, FiniteSets, Integers, Sequences, TLC

(***************************************************************************)
(* Bounds                                                                  *)
(***************************************************************************)
\* The largest page_count a catalog announces.
MaxPages == 3
\* The number of facmod-* directories that may exist at one time.
MaxDirs == 2

(***************************************************************************)
(* Text                                                                    *)
(***************************************************************************)
Str_ab == <<"a", "b">>
Str_AB == <<"A", "B">>
Str_axb == <<"a", "x", "b">>
Str_abc == <<"a", "b", "c">>
Str_x == <<"x">>
Str_a == <<"a">>
Str_Ab == <<"A", "b">>
Str_a_b == <<"a", "_", "b">>
Str_pct == <<"%">>
Str_b == <<"b">>
Str_c == <<"c">>
Str_e == <<"e">>
Str_base == <<"b", "a", "s", "e">>
Str_1_1 == <<"1", ".", "1">>
Str_0_18 == <<"0", ".", "1", "8">>
Str_2_0 == <<"2", ".", "0">>

\* The byte value of a character, as memcmp sees it.
ByteValues ==
    (" " :> 32) @@ ("!" :> 33) @@ ("%" :> 37) @@ ("(" :> 40) @@
    (")" :> 41) @@ ("." :> 46) @@ ("0" :> 48) @@ ("1" :> 49) @@
    ("2" :> 50) @@ ("3" :> 51) @@ ("8" :> 56) @@ ("<" :> 60) @@
    ("=" :> 61) @@ (">" :> 62) @@ ("?" :> 63) @@ ("A" :> 65) @@
    ("B" :> 66) @@ ("_" :> 95) @@ ("a" :> 97) @@ ("b" :> 98) @@
    ("c" :> 99) @@ ("e" :> 101) @@ ("s" :> 115) @@ ("x" :> 120) @@
    ("~" :> 126)
Code(c) == IF c \in DOMAIN ByteValues THEN ByteValues[c] ELSE 0

\* The lower case form of an ASCII letter; any other character is itself.
Lower(c) ==
    CASE c = "A" -> "a"
      [] c = "B" -> "b"
      [] OTHER -> c

\* Equality of two TEXT values under the BINARY collation.
TextEqNoCase(a, b) ==
    /\ Len(a) = Len(b)
    /\ \A i \in 1..Len(a) : Lower(a[i]) = Lower(b[i])
TextEq(a, b) ==
    /\ Len(a) = Len(b)
    /\ \A i \in 1..Len(a) : Code(a[i]) = Code(b[i])

\* memcmp order of two TEXT values: a >= b.
RECURSIVE TextGeq(_, _)
TextGeq(a, b) ==
    IF b = <<>> THEN TRUE
    ELSE IF a = <<>> THEN FALSE
    ELSE IF Code(Head(a)) # Code(Head(b)) THEN Code(Head(a)) > Code(Head(b))
    ELSE TextGeq(Tail(a), Tail(b))

(***************************************************************************)
(* The remote catalog (modlist, modlistResult, modRelease)                 *)
(***************************************************************************)
\* info_json ->> '$.factorio_version' is a text value, or NULL when the
\* manifest has no such member.
FVText(s) == [kind |-> "text", text |-> s]
FVNull == [kind |-> "null", text |-> <<>>]

\* released_at as decoded from the API: whole seconds and a fraction.
Time(s, f) == [sec |-> s, frac |-> f]

\* The version member of a release is a dot separated text; it is kept as
\* the sequence of its numeric fields, the empty sequence being the empty
\* text.
Entry_ab1 ==
    [name |-> Str_ab, summary |-> Str_x, category |-> "content",
     download_url |-> "/download/ab/1", fv |-> FVText(Str_1_1),
     released_at |-> Time(1, 5), version |-> <<1, 0, 0>>]
Entry_AB ==
    [name |-> Str_AB, summary |-> Str_ab, category |-> "tweaks",
     download_url |-> "/download/AB/1", fv |-> FVText(Str_0_18),
     released_at |-> Time(2, 0), version |-> <<2>>]
Entry_ab2 ==
    [name |-> Str_ab, summary |-> Str_ab, category |-> "brand-new",
     download_url |-> "/download/ab/2", fv |-> FVText(Str_2_0),
     released_at |-> Time(3, 0), version |-> <<2, 0, 0>>]
Entry_axb ==
    [name |-> Str_axb, summary |-> Str_ab, category |-> "utilities",
     download_url |-> "/download/axb/1", fv |-> FVText(Str_1_1),
     released_at |-> Time(4, 1), version |-> <<1, 1>>]
Entry_abc ==
    [name |-> Str_abc, summary |-> Str_x, category |-> "content",
     download_url |-> "/download/abc/1", fv |-> FVNull,
     released_at |-> Time(5, 0), version |-> <<>>]

\* The entry of a mod that only its name and version tell from the others.
PortalEntry(name, version) ==
    [name |-> name, summary |-> Str_x, category |-> "content",
     download_url |-> <<"/">> \o name, fv |-> FVText(Str_1_1),
     released_at |-> Time(1, 0), version |-> version]

\* The JSON texts of the entries are named; decoding a text gives the
\* entry (json.Decoder.Decode into a modlistResult).
Decode(json) ==
    CASE json = "ab1" -> Entry_ab1
      [] json = "AB" -> Entry_AB
      [] json = "ab2" -> Entry_ab2
      [] json = "axb" -> Entry_axb
      [] json = "abc" -> Entry_abc
      [] json = "m_a" -> PortalEntry(Str_a, <<1, 0, 0>>)
      [] json = "m_b" -> PortalEntry(Str_b, <<1>>)
      [] json = "m_c" -> PortalEntry(Str_c, <<2, 0, 0>>)
      [] json = "m_x" -> PortalEntry(Str_x, <<1, 1>>)
      [] json = "m_e" -> PortalEntry(Str_e, <<3, 0, 0>>)

\* The results arrays of two catalog pages.
Page1 == <<"ab1", "AB">>
Page2 == <<"ab2", "axb">>

\* A catalog is its pages in order; page_count is the number of pages.
Catalogs ==
    {cat \in {<<Page1>>, <<Page1, Page2>>, <<Page2, Page1>>,
              <<Page1, Page1, Page2>>, <<Page1, Page2, Page1, Page2>>,
              <<Page2, Page1, Page1, Page1, Page2>>} :
        Len(cat) <= MaxPages}

RECURSIVE Flatten(_)
Flatten(pages) ==
    IF pages = <<>> THEN <<>> ELSE Head(pages) \o Flatten(Tail(pages))

\* All entries the catalog serves, page 1 first.
CatalogEntries(cat) == Flatten(cat)

(***************************************************************************)
(* State                                                                   *)
(***************************************************************************)
VARIABLES
    categories,         \* table categories(name)
    mods,               \* table mods(name, title, owner, summary, category)
    latest_releases,    \* table latest_releases(name, download_url, ...)
    dirs,               \* the facmod-* directories of the cache directory
    cachedResultsPath,  \* Cache.cachedResultsPath
    showProgressBar,    \* Cache.showProgressBar
    modFiles,           \* the artifacts in the cache's mods directory
    last,               \* the last call and what it returned
    mu,                 \* Cache.mu: 0 when unlocked, else the caller holding it
    calls               \* the calls in progress on the handle, per caller

vars == <<categories, mods, latest_releases, dirs, cachedResultsPath,
          showProgressBar, modFiles, last, mu, calls>>

store == <<categories, mods, latest_releases>>

\* The empty cachedResultsPath.
NoPath == 0
DirIds == 1..MaxDirs
\* A directory name that does not exist.
NoDir == [exists |-> FALSE, stream |-> <<>>]
\* facmod-*/results.json holding the stream of entries s.
ResultsDir(s) == [exists |-> TRUE, stream |-> s]

\* The arguments of a lookup call and what its surroundings do to it.
NoArg ==
    [name |-> <<>>, username |-> "", token |-> "", fault |-> "none",
     cats |-> <<>>, sortByDate |-> FALSE, nameOnly |-> FALSE,
     args |-> <<>>, installOptional |-> FALSE]

\* What the last call reported: the requests it issued, the catalog a
\* complete Pull read, whether a failed Update had written an entry,
\* whether the call before it was the same operation and succeeded, and for
\* a lookup its arguments, the value it returned and whether its query was
\* handed to the database.
NoCall ==
    [op |-> "none", res |-> "ok", reqs |-> <<>>, catalog |-> <<>>,
     wrote |-> FALSE, rerun |-> FALSE, arg |-> NoArg, val |-> <<>>,
     queried |-> FALSE, trace |-> <<>>]

Rerun(op) == last.op = op /\ last.res = "ok"

\* The goroutines that call methods of one Cache.
MaxThreads == 2
Threads == 1..MaxThreads

\* A caller that is in no call.  A call in progress has its method (op),
\* the place it has reached (pc), whether its transaction is open (tx),
\* whether its context has been cancelled, whether Update created a progress
\* bar, the results file Update opened, the next entry of that stream, the
\* tables as its transaction has written them (db, <<>> before its first
\* statement) and its result.
Idle ==
    [op |-> "none", pc |-> "idle", tx |-> FALSE, cancelled |-> FALSE,
     bar |-> FALSE, file |-> NoPath, i |-> 0, db |-> <<>>, res |-> "none"]
NoCalls == [t \in Threads |-> Idle]

(***************************************************************************)
(* The database                                                            *)
(***************************************************************************)
DB(c, m, r) == [categories |-> c, mods |-> m, latest_releases |-> r]

\* time.Time.Format(time.RFC3339): whole seconds, the fraction is dropped.
FormatRFC3339(t) == t.sec

ModRow(e) == [name |-> e.name, summary |-> e.summary, category |-> e.category]
ReleaseRow(e) ==
    [name |-> e.name, download_url |-> e.download_url, fv |-> e.fv,
     released_at |-> FormatRFC3339(e.released_at), version |-> e.version]

\* A table is a bag of rows: a function from the rows it holds to the
\* number of copies.
\* The table with one more copy of row r.
AddRow(table, r) ==
    IF r \in DOMAIN table THEN [table EXCEPT ![r] = @ + 1]
    ELSE table @@ (r :> 1)

\* The rows of a table whose name column differs from n.
WithoutName(table, n) ==
    [r \in {x \in DOMAIN table : x.name # n} |-> table[r]]

\* INSERT OR IGNORE INTO categories (name) VALUES (?)
InsertCategoryNever(table, c) == table
InsertCategory(table, c) ==
    IF c \in DOMAIN table THEN table ELSE AddRow(table, c)

\* INSERT OR REPLACE INTO mods (...) VALUES (...)
InsertModAppend(table, e) == AddRow(table, ModRow(e))
InsertMod(table, e) == AddRow(WithoutName(table, e.name), ModRow(e))

\* INSERT OR REPLACE INTO latest_releases (...) VALUES (...)
InsertReleaseAppend(table, e) == AddRow(table, ReleaseRow(e))
InsertRelease(table, e) == AddRow(WithoutName(table, e.name), ReleaseRow(e))

(***************************************************************************)
(* Cache.Pull                                                              *)
(***************************************************************************)
\* os.MkdirTemp: a name that no directory has; the name the handle still
\* remembers is not handed out again.
FreeDirs == {d \in DirIds : ~dirs[d].exists /\ d # cachedResultsPath}
NewDir == CHOOSE d \in FreeDirs : \A o \in FreeDirs : d <= o

\* The pages 2..k of a catalog, encoded one entry after the other.
RECURSIVE EncodePages(_, _, _)
EncodePages(cat, i, k) ==
    IF i > k THEN <<>> ELSE cat[i] \o EncodePages(cat, i + 1, k)

\* What Pull does with a page, in the order it does it: the request
\* (httputil.Get), the decoding of the response and the encoding of its
\* results into results.json.
PullEvent(ev, page) == [ev |-> ev, page |-> page]

\* The loop of Pull over the pages i..totalPages.
RECURSIVE PullLoop(_, _, _)
PullLoop(cat, i, failPage) ==
    IF i > Len(cat) THEN <<>>
    ELSE IF failPage = i THEN <<PullEvent("get", i)>>
    ELSE <<PullEvent("get", i), PullEvent("decode", i),
           PullEvent("encode", i)>> \o PullLoop(cat, i + 1, failPage)

\* The first page is requested and decoded for its page count; then the
\* loop runs from page 2.
PullTrace(cat, failPage) ==
    IF failPage = 1 THEN <<PullEvent("get", 1)>>
    ELSE <<PullEvent("get", 1), PullEvent("decode", 1)>>
         \o PullLoop(cat, 2, failPage)

\* Pull against catalog cat; failPage is the page whose request or decoding
\* fails (0: none).  The result is the new directory content (or NoDir when
\* none was created), the requests issued and the error.
PullOutcome(cat, failPage) ==
    LET n == Len(cat) IN
    IF failPage = 1
    THEN [res |-> "err", made |-> FALSE, dir |-> NoDir, reqs |-> <<1>>,
          trace |-> PullTrace(cat, failPage)]
    ELSE IF failPage \in 2..n
    THEN [res |-> "err", made |-> TRUE,
          dir |-> ResultsDir(EncodePages(cat, 2, failPage - 1)),
          reqs |-> [i \in 1..failPage |-> i],
          trace |-> PullTrace(cat, failPage)]
    ELSE [res |-> "ok", made |-> TRUE,
          dir |-> ResultsDir(EncodePages(cat, 2, n)),
          reqs |-> [i \in 1..n |-> i],
          trace |-> PullTrace(cat, failPage)]

\* c.cachedResultsPath once Pull has returned with outcome o, d being the
\* directory of its temporary file.
StagedAfterPullEarly(o, path, d) == IF o.made THEN d ELSE path
StagedAfterPull(o, path, d) == IF o.res = "ok" THEN d ELSE path

Pull(cat, failPage) ==
    /\ last.res # "panic"
    /\ FreeDirs # {}
    /\ LET o == PullOutcome(cat, failPage) IN
       /\ dirs' = IF o.made THEN [dirs EXCEPT ![NewDir] = o.dir] ELSE dirs
       /\ cachedResultsPath' = StagedAfterPull(o, cachedResultsPath, NewDir)
       /\ last' = [NoCall EXCEPT !.op = "Pull", !.res = o.res,
                                 !.reqs = o.reqs, !.trace = o.trace,
                                 !.catalog = IF o.res = "ok" THEN cat ELSE <<>>]
    /\ UNCHANGED <<mu, calls, categories, mods, latest_releases, showProgressBar,
                   modFiles>>

(***************************************************************************)
(* Cache.Update                                                            *)
(***************************************************************************)
\* Where a statement of the transaction may fail.
TxFailKinds == {"begin", "prepare", "decode", "category", "mod", "release",
                "commit"}
NoFail == [at |-> 0, kind |-> "none"]

\* The loop of Update over the staged stream, from entry i on, inside the
\* transaction.  bar is whether a progress bar was created.
RECURSIVE UpdateLoop(_, _, _, _, _)
UpdateLoop(db, stream, i, fail, bar) ==
    IF i > Len(stream)
    THEN [db |-> db, progress |-> i - 1,
          res |-> IF fail.at = i /\ fail.kind = "decode" THEN "err" ELSE "ok"]
    ELSE
      LET m == Decode(stream[i])
          db1 == [db EXCEPT !.categories = InsertCategory(@, m.category)]
          db2 == [db1 EXCEPT !.mods = InsertMod(@, m)]
          db3 == [db2 EXCEPT !.latest_releases = InsertRelease(@, m)]
          here(k) == fail.at = i /\ fail.kind = k
      IN
      IF here("decode") THEN [db |-> db, progress |-> i - 1, res |-> "err"]
      ELSE IF here("category")
      THEN [db |-> db, progress |-> i - 1, res |-> "err"]
      ELSE IF here("mod") THEN [db |-> db1, progress |-> i - 1, res |-> "err"]
      ELSE IF here("release")
      THEN [db |-> db2, progress |-> i - 1, res |-> "err"]
      \* bar.Add(1) on the nil *progressbar.ProgressBar
      ELSE IF ~bar THEN [db |-> db3, progress |-> i, res |-> "panic"]
      ELSE UpdateLoop(db3, stream, i + 1, fail, bar)

\* The function Update hands to withTx.
UpdateFn(db, stream, fail, bar) ==
    IF fail.kind = "prepare"
    THEN [db |-> db, progress |-> 0, res |-> "err"]
    ELSE UpdateLoop(db, stream, 1, fail, bar)

\* withTx: what the database holds once fn has returned r.  A panic in fn
\* leaves the transaction neither committed nor rolled back.
withTxKeep(db, r, fail) == r.db
withTx(db, r, fail) ==
    IF r.res = "ok" /\ fail.kind # "commit" THEN r.db ELSE db

\* The entries of the stream at which a statement is made to fail: the first,
\* the second and the last.
FailAts(stream) == {a \in {1, 2, Len(stream)} : a \in 1..Len(stream)}

\* Where the transaction of an Update over stream may fail.
FailPoints(stream) ==
    {NoFail}
    \cup {[at |-> 0, kind |-> k] : k \in {"begin", "prepare"}}
    \cup {[at |-> a, kind |-> k] :
             a \in FailAts(stream),
             k \in {"decode", "category", "mod", "release"}}
    \cup {[at |-> Len(stream) + 1, kind |-> k] : k \in {"decode", "commit"}}

\* pullRequired = c.cachedResultsPath == ""
pullRequiredAlways(path) == TRUE
pullRequired(path) == path = NoPath

\* The outcome of the Pull that Update did not need.
NoPull ==
    [res |-> "ok", made |-> FALSE, dir |-> NoDir, reqs |-> <<>>,
     trace |-> <<>>]

\* Update once the implicit Pull, if any, has ended with outcome o.
UpdateAfterPull(o, cat) ==
    LET dirs1 == IF o.made THEN [dirs EXCEPT ![NewDir] = o.dir] ELSE dirs
        path1 == IF o.made THEN StagedAfterPull(o, cachedResultsPath, NewDir)
                 ELSE cachedResultsPath
        call == [NoCall EXCEPT !.op = "Update", !.reqs = o.reqs,
                               !.trace = o.trace,
                               !.rerun = Rerun("Update"),
                               !.catalog = IF o.res = "ok" THEN cat ELSE <<>>]
    IN
    /\ dirs' = dirs1
    /\ cachedResultsPath' = path1
    /\ IF o.res # "ok"
       THEN \* pull mod list: ...
            /\ last' = [call EXCEPT !.res = "err"]
            /\ UNCHANGED store
       ELSE IF ~dirs1[path1].exists
       THEN \* open results file: ...
            /\ last' = [call EXCEPT !.res = "err"]
            /\ UNCHANGED store
       ELSE
         LET stream == dirs1[path1].stream
             db == DB(categories, mods, latest_releases)
         IN
         \E fail \in FailPoints(stream) :
            IF fail.kind = "begin"
            THEN /\ last' = [call EXCEPT !.res = "err"]
                 /\ UNCHANGED store
            ELSE
              LET r == UpdateFn(db, stream, fail, showProgressBar)
                  db2 == withTx(db, r, fail)
              IN
              /\ categories' = db2.categories
              /\ mods' = db2.mods
              /\ latest_releases' = db2.latest_releases
              /\ last' = [call EXCEPT
                            !.res = IF r.res = "ok" /\ fail.kind = "commit"
                                    THEN "err" ELSE r.res,
                            !.wrote = r.res = "err" /\ r.progress > 0]

Update ==
    /\ last.res # "panic"
    /\ IF pullRequired(cachedResultsPath)
       THEN /\ FreeDirs # {}
            /\ \E cat \in Catalogs : \E failPage \in 0..Len(cat) :
                  UpdateAfterPull(PullOutcome(cat, failPage), cat)
       ELSE UpdateAfterPull(NoPull,
                            IF Rerun("Pull") THEN last.catalog ELSE <<>>)
    /\ UNCHANGED <<mu, calls, showProgressBar, modFiles>>

(***************************************************************************)
(* Cache.Clean, the progress bar switches, OpenCache                       *)
(***************************************************************************)
\* Clean removes the directories matching facmod-*/results.json in glob
\* order; os.RemoveAll may fail on the directory failDir (0: none), which
\* ends the loop.
RemoveFirstMatch(ds, failDir) ==
    [d \in DirIds |->
       IF ds[d].exists /\ \A o \in DirIds : ds[o].exists => d <= o
       THEN NoDir ELSE ds[d]]
RemoveMatches(ds, failDir) ==
    [d \in DirIds |-> IF failDir = 0 \/ d < failDir THEN NoDir ELSE ds[d]]

Clean(failDir) ==
    /\ last.res # "panic"
    /\ failDir = 0 \/ (failDir \in DirIds /\ dirs[failDir].exists)
    /\ dirs' = RemoveMatches(dirs, failDir)
    /\ last' = [NoCall EXCEPT !.op = "Clean",
                              !.res = IF failDir = 0 THEN "ok" ELSE "err",
                              !.rerun = Rerun("Clean")]
    /\ UNCHANGED <<mu, calls, categories, mods, latest_releases, cachedResultsPath,
                   showProgressBar, modFiles>>

EnableProgressBar ==
    /\ last.res # "panic"
    /\ showProgressBar' = TRUE
    /\ last' = NoCall
    /\ UNCHANGED <<mu, calls, categories, mods, latest_releases, dirs,
                   cachedResultsPath, modFiles>>

DisableProgressBar ==
    /\ last.res # "panic"
    /\ showProgressBar' = FALSE
    /\ last' = NoCall
    /\ UNCHANGED <<mu, calls, categories, mods, latest_releases, dirs,
                   cachedResultsPath, modFiles>>

\* A new handle on the same cache directory (the next run of a command):
\* the database and the files stay, the handle's fields are zero.
OpenCache ==
    /\ cachedResultsPath' = NoPath
    /\ showProgressBar' = FALSE
    /\ last' = NoCall
    /\ UNCHANGED <<mu, calls, categories, mods, latest_releases, dirs, modFiles>>

(***************************************************************************)
(* Point lookups: Cache.LatestVersion, Cache.DownloadURL                   *)
(***************************************************************************)
\* What a call's surroundings may do to it: nothing, the database refusing
\* the first or the second transaction, MkdirAll or Stat failing, the
\* request failing, Create failing, the response body breaking off.
Faults == {"none", "db", "dburl", "mkdir", "stat", "net", "create", "copy"}

\* SELECT ... FROM latest_releases WHERE name = ? LIMIT 1.  name is the
\* PRIMARY KEY: at most one row has it.
ReleaseRows(name) == {r \in DOMAIN latest_releases : TextEq(r.name, name)}

\* semver.NewVersion on the version text: one to three numeric fields, the
\* missing ones being 0; any other text is refused.
NewVersion(v) ==
    IF Len(v) \in 1..3
    THEN [res |-> "ok", val |-> [i \in 1..3 |-> IF i <= Len(v) THEN v[i] ELSE 0]]
    ELSE [res |-> "err", val |-> <<>>]

\* The result of LatestVersion(name): "notfound" is the error "no mod found".
LatestVersionOutcome(name, fault) ==
    IF name = <<>> THEN [res |-> "err", val |-> <<>>]
    ELSE IF fault = "db" THEN [res |-> "err", val |-> <<>>]
    ELSE IF ReleaseRows(name) = {} THEN [res |-> "notfound", val |-> <<>>]
    ELSE NewVersion((CHOOSE r \in ReleaseRows(name) : TRUE).version)

\* The result of DownloadURL(name).
DownloadURLOutcome(name, fault) ==
    IF name = <<>> THEN [res |-> "err", val |-> <<>>]
    ELSE IF fault \in {"db", "dburl"} THEN [res |-> "err", val |-> <<>>]
    ELSE IF ReleaseRows(name) = {} THEN [res |-> "notfound", val |-> <<>>]
    ELSE [res |-> "ok",
          val |-> [Scheme |-> "https", Host |-> "mods.factorio.com",
                   Path |-> (CHOOSE r \in ReleaseRows(name) : TRUE).download_url,
                   RawQuery |-> <<>>]]

LatestVersion(name, fault) ==
    /\ LET o == LatestVersionOutcome(name, fault) IN
       last' = [NoCall EXCEPT !.op = "LatestVersion", !.res = o.res,
                              !.val = o.val, !.arg.name = name,
                              !.arg.fault = fault]
    /\ UNCHANGED <<mu, calls, categories, mods, latest_releases, dirs,
                   cachedResultsPath, showProgressBar, modFiles>>

DownloadURL(name, fault) ==
    /\ LET o == DownloadURLOutcome(name, fault) IN
       last' = [NoCall EXCEPT !.op = "DownloadURL", !.res = o.res,
                              !.val = o.val, !.arg.name = name,
                              !.arg.fault = fault]
    /\ UNCHANGED <<mu, calls, categories, mods, latest_releases, dirs,
                   cachedResultsPath, showProgressBar, modFiles>>

(***************************************************************************)
(* Cache.Get                                                               *)
(***************************************************************************)
\* <mods dir>/<name>_<version>.zip
ModPath(name, version) == [name |-> name, version |-> version]

\* A file of the mods directory: its path, and whether its content is the
\* whole response body.
ModFile(path, complete) == [path |-> path, complete |-> complete]

\* downloadp: os.Stat(modpath) reports fs.ErrNotExist.
downloadpAlways(files, path) == TRUE
downloadp(files, path) == \A f \in files : f.path # path

\* username == "" or token == "".
CredentialsMissingBoth(username, token) == username = "" /\ token = ""
CredentialsMissing(username, token) == username = "" \/ token = ""

\* os.Create(modpath) followed by io.Copy: the file at path holds the whole
\* body or a part of it.
CreateFile(files, path, complete) ==
    {f \in files : f.path # path} \cup {ModFile(path, complete)}

\* Get(name, username, token) under the fault, files being the mods
\* directory at the call.
GetOutcome(files, name, username, token, fault) ==
    LET failed == [res |-> "err", val |-> <<>>, reqs |-> <<>>, files |-> files]
        version == LatestVersionOutcome(name, fault)
        modpath == ModPath(name, version.val)
        durl == DownloadURLOutcome(name, fault)
        req == [durl.val EXCEPT !.RawQuery = <<token, username>>]
    IN
    IF name = <<>> THEN failed
    ELSE IF version.res # "ok" THEN failed
    ELSE IF fault = "mkdir" THEN failed
    ELSE IF fault = "stat" THEN failed
    ELSE IF ~downloadp(files, modpath)
    THEN [failed EXCEPT !.res = "ok", !.val = modpath]
    ELSE IF CredentialsMissing(username, token) THEN failed
    ELSE IF durl.res # "ok" THEN failed
    ELSE IF fault = "net" THEN [failed EXCEPT !.reqs = <<req>>]
    ELSE IF fault = "create" THEN [failed EXCEPT !.reqs = <<req>>]
    ELSE IF fault = "copy"
    THEN [failed EXCEPT !.reqs = <<req>>,
                        !.files = CreateFile(files, modpath, FALSE)]
    ELSE [res |-> "ok", val |-> modpath, reqs |-> <<req>>,
          files |-> CreateFile(files, modpath, TRUE)]

Get(name, username, token, fault) ==
    /\ LET o == GetOutcome(modFiles, name, username, token, fault) IN
       /\ modFiles' = o.files
       /\ last' = [NoCall EXCEPT !.op = "Get", !.res = o.res, !.val = o.val,
                                 !.reqs = o.reqs,
                                 !.arg = [NoArg EXCEPT !.name = name,
                                                       !.username = username,
                                                       !.token = token,
                                                       !.fault = fault]]
    /\ UNCHANGED <<mu, calls, categories, mods, latest_releases, dirs,
                   cachedResultsPath, showProgressBar>>

(***************************************************************************)
(* Cache.Search                                                            *)
(***************************************************************************)
\* The category constants WithCategories accepts.
KnownCategories ==
    {"no-category", "content", "overhaul", "tweaks", "utilities", "scenarios",
     "mod-packs", "localizations", "internal"}

\* WithCategories(cats...): an empty name is skipped and stays in the list,
\* any other name that is no category constant is an error.
WithCategoriesAny(cats) == [res |-> "ok", categories |-> cats]
WithCategories(cats) ==
    IF \E i \in 1..Len(cats) : cats[i] \notin KnownCategories \cup {""}
    THEN [res |-> "err", categories |-> <<>>]
    ELSE [res |-> "ok", categories |-> cats]

\* The LIKE operator of SQLite: % matches any run of characters, _ any one
\* character, and every other character matches itself without regard to
\* the case of ASCII letters.
RECURSIVE Like(_, _)
Like(pattern, text) ==
    IF pattern = <<>> THEN text = <<>>
    ELSE IF Head(pattern) = "%"
    THEN \E k \in 0..Len(text) :
            Like(Tail(pattern), SubSeq(text, k + 1, Len(text)))
    ELSE IF text = <<>> THEN FALSE
    ELSE IF Head(pattern) = "_" THEN Like(Tail(pattern), Tail(text))
    ELSE /\ Lower(Head(pattern)) = Lower(Head(text))
         /\ Like(Tail(pattern), Tail(text))

\* r.info_json ->> '$.factorio_version' >= '1.1': NULL compares to nothing,
\* a text value compares in memcmp order.
FactorioVersionGeq(fv, bound) == fv.kind = "text" /\ TextGeq(fv.text, bound)

\* time.Parse(time.RFC3339, releasedAt)
ParseRFC3339(t) == Time(t, 0)

\* parseVersion: the first three dot separated fields, 0 for a field that is
\* missing or no number.
parseVersion(v) ==
    [Major |-> IF Len(v) >= 1 THEN v[1] ELSE 0,
     Minor |-> IF Len(v) >= 2 THEN v[2] ELSE 0,
     Patch |-> IF Len(v) = 3 THEN v[3] ELSE 0]

\* The rows of the SELECT of Search: mods joined with latest_releases on the
\* name, filtered by factorio_version, by the term and by the categories.
SearchRows(term, cats) ==
    {[m |-> m, r |-> r] : m \in DOMAIN mods, r \in DOMAIN latest_releases}
    \cap {p \in [m : DOMAIN mods, r : DOMAIN latest_releases] :
            /\ TextEq(p.m.name, p.r.name)
            /\ FactorioVersionGeq(p.r.fv, Str_1_1)
            /\ Like(<<"%">> \o term \o <<"%">>, p.m.name)
            /\ cats # <<>> => \E i \in 1..Len(cats) : p.m.category = cats[i]}

\* The orders in which the rows may come back: any order, or with
\* ORDER BY r.released_at DESC any order with the later release first.
RowOrders(rows, sortByDate) ==
    {o \in [1..Cardinality(rows) -> rows] :
        /\ \A i, j \in DOMAIN o : i # j => o[i] # o[j]
        /\ sortByDate =>
             \A i, j \in DOMAIN o : i < j => o[i].r.released_at >= o[j].r.released_at}

\* The M built from a row.
SearchResult(p) ==
    [Name |-> p.m.name, Versions |-> <<parseVersion(p.r.version)>>,
     ReleasedAt |-> ParseRFC3339(p.r.released_at), Summary |-> p.m.summary,
     Category |-> p.m.category]

\* searchTerm == ""
EmptyTermNever(term) == FALSE
EmptyTerm(term) == term = <<>>

\* Search(term, options...): the options are WithCategories(cats...) when
\* cats is not empty, SortByDate() and NameOnly().  NameOnly sets
\* searchOptions.nameOnly, which the query never reads.
Search(term, cats, sortByDate, nameOnly, fault) ==
    /\ LET call == [NoCall EXCEPT !.op = "Search",
                                  !.arg = [NoArg EXCEPT !.name = term,
                                                        !.cats = cats,
                                                        !.sortByDate = sortByDate,
                                                        !.nameOnly = nameOnly,
                                                        !.fault = fault]]
           sopts == WithCategories(cats)
       IN
       IF EmptyTerm(term) THEN last' = [call EXCEPT !.res = "err"]
       ELSE IF sopts.res # "ok" THEN last' = [call EXCEPT !.res = "err"]
       ELSE IF fault = "db"
       THEN last' = [call EXCEPT !.res = "err", !.queried = TRUE]
       ELSE \E o \in RowOrders(SearchRows(term, sopts.categories), sortByDate) :
               last' = [call EXCEPT
                          !.queried = TRUE,
                          !.val = [i \in DOMAIN o |-> SearchResult(o[i])]]
    /\ UNCHANGED <<mu, calls, categories, mods, latest_releases, dirs,
                   cachedResultsPath, showProgressBar, modFiles>>

(***************************************************************************)
(* Dependency lines of a manifest: ParseDependency, Dependency.String      *)
(***************************************************************************)
\* strings.HasPrefix, strings.TrimPrefix
HasPrefix(s, p) == Len(p) <= Len(s) /\ SubSeq(s, 1, Len(p)) = p
TrimPrefixKeep(s, p) == s
TrimPrefix(s, p) == IF HasPrefix(s, p) THEN SubSeq(s, Len(p) + 1, Len(s)) ELSE s

\* strings.Index: the byte offset of the first occurrence of sub in s, -1
\* when there is none.
Index(s, sub) ==
    LET at == {k \in 0..(Len(s) - Len(sub)) : SubSeq(s, k + 1, k + Len(sub)) = sub}
    IN IF at = {} THEN -1 ELSE CHOOSE k \in at : \A o \in at : k <= o

\* strings.TrimSpace
RECURSIVE TrimLeft(_)
TrimLeft(s) == IF s # <<>> /\ Head(s) = " " THEN TrimLeft(Tail(s)) ELSE s
RECURSIVE TrimRight(_)
TrimRight(s) ==
    IF s # <<>> /\ s[Len(s)] = " " THEN TrimRight(SubSeq(s, 1, Len(s) - 1)) ELSE s
TrimSpace(s) == TrimRight(TrimLeft(s))

\* The decimal digits.
Digits == <<"0", "1", "2", "3", "4", "5", "6", "7", "8", "9">>
IsDigit(c) == \E i \in DOMAIN Digits : Digits[i] = c
DigitValue(c) == (CHOOSE i \in DOMAIN Digits : Digits[i] = c) - 1

\* The value of a run of digits, -1 for a text that is empty or holds
\* another character.
RECURSIVE ParseUintFrom(_, _)
ParseUintFrom(s, acc) ==
    IF s = <<>> THEN acc
    ELSE IF ~IsDigit(Head(s)) THEN -1
    ELSE ParseUintFrom(Tail(s), acc * 10 + DigitValue(Head(s)))
ParseUint(s) == IF s = <<>> THEN -1 ELSE ParseUintFrom(s, 0)

\* The texts between the dots of s.
RECURSIVE SplitDots(_)
SplitDots(s) ==
    LET i == Index(s, <<".">>) IN
    IF i = -1 THEN <<s>>
    ELSE <<SubSeq(s, 1, i)>> \o SplitDots(SubSeq(s, i + 2, Len(s)))

\* semver.NewVersion on a text: its numeric fields, then NewVersion.
NewVersionTextZero(s) == [res |-> "ok", val |-> <<0, 0, 0>>]
NewVersionText(s) ==
    LET fields == SplitDots(s)
        nums == [i \in DOMAIN fields |-> ParseUint(fields[i])]
    IN IF \E i \in DOMAIN nums : nums[i] = -1
       THEN [res |-> "err", val |-> <<>>]
       ELSE NewVersion(nums)

\* strconv.FormatUint in base 10, and semver.Version.String.
RECURSIVE FormatUint(_)
FormatUint(n) ==
    IF n < 10 THEN <<Digits[n + 1]>>
    ELSE FormatUint(n \div 10) \o <<Digits[(n % 10) + 1]>>
VersionString(v) ==
    FormatUint(v[1]) \o <<".">> \o FormatUint(v[2]) \o <<".">> \o FormatUint(v[3])

\* DependencyMode: bits of a uint.
ModeRequired == 1
ModeOptional == 2
ModeHidden == 4
ModeConflict == 8
ModeNoAffectLoadOrder == 16

\* d&bit == bit
HasMode(d, bit) == (d \div bit) % 2 = 1

\* DependencyMode.String
ModeString(d) ==
    CASE d = ModeOptional -> <<"?">>
      [] d = ModeHidden + ModeOptional -> <<"(", "?", ")">>
      [] d = ModeConflict -> <<"!">>
      [] d = ModeNoAffectLoadOrder -> <<"~">>
      [] OTHER -> <<>>

\* The modes whose prefix the line starts with.  No prefix is a prefix of
\* another, so whatever order the map is ranged over at most one matches.
PrefixModes(s) ==
    {m \in {ModeOptional, ModeHidden + ModeOptional, ModeConflict,
            ModeNoAffectLoadOrder} : HasPrefix(s, ModeString(m))}

\* findEqOp: the first operator of the list that occurs in s, and where.
EqOps == <<<<"<", "=">>, <<"<">>, <<">", "=">>, <<">">>, <<"=">>>>
FindEqOpLast(s) ==
    LET found == {i \in DOMAIN EqOps : Index(s, EqOps[i]) # -1} IN
    IF found = {} THEN [op |-> <<>>, index |-> -1]
    ELSE LET i == CHOOSE k \in found : \A o \in found : k >= o
         IN [op |-> EqOps[i], index |-> Index(s, EqOps[i])]
findEqOp(s) ==
    LET found == {i \in DOMAIN EqOps : Index(s, EqOps[i]) # -1} IN
    IF found = {} THEN [op |-> <<>>, index |-> -1]
    ELSE LET i == CHOOSE k \in found : \A o \in found : k <= o
         IN [op |-> EqOps[i], index |-> Index(s, EqOps[i])]

\* A nil *DependencyVersion.
NoVersion == [Op |-> <<>>, Version |-> <<>>]

\* ParseDependency once the loop over the prefixes has set mode.
ParseWithMode(s, mode) ==
    LET eq == findEqOp(s)
        name == TrimSpace(SubSeq(s, Len(ModeString(mode)) + 1, eq.index))
        vstr == TrimSpace(SubSeq(s, eq.index + Len(eq.op) + 1, Len(s)))
        version == NewVersionText(vstr)
    IN
    IF eq.index = -1
    THEN [res |-> "ok", Name |-> TrimSpace(TrimPrefix(s, ModeString(mode))),
          Version |-> NoVersion, Mode |-> mode]
    ELSE IF version.res # "ok"
    THEN [res |-> "err", Name |-> <<>>, Version |-> NoVersion, Mode |-> 0]
    ELSE [res |-> "ok", Name |-> name,
          Version |-> [Op |-> eq.op, Version |-> version.val], Mode |-> mode]

ParseDependency(s) ==
    ParseWithMode(s, IF PrefixModes(s) = {} THEN ModeRequired
                     ELSE CHOOSE m \in PrefixModes(s) : TRUE)

\* The keys of the map ParseDependency ranges over, by the mode they stand
\* for: optionalPrefix, hiddenOptionalPrefix, conflictPrefix, dnaloPrefix.
PrefixOfModeParen(m) ==
    CASE m = ModeOptional -> <<"?">>
      [] m = ModeHidden + ModeOptional -> <<"(", "?", ")">>
      [] m = ModeConflict -> <<"(">>
      [] m = ModeNoAffectLoadOrder -> <<"~">>
PrefixOfMode(m) ==
    CASE m = ModeOptional -> <<"?">>
      [] m = ModeHidden + ModeOptional -> <<"(", "?", ")">>
      [] m = ModeConflict -> <<"!">>
      [] m = ModeNoAffectLoadOrder -> <<"~">>

\* The orders in which a range over the map may visit its four entries.
MapOrders ==
    LET ms == {ModeOptional, ModeHidden + ModeOptional, ModeConflict,
               ModeNoAffectLoadOrder}
    IN {o \in [1..4 -> ms] : \A i, j \in 1..4 : o[i] = o[j] => i = j}

\* The loop over the map in the given order: the mode of the first entry
\* whose prefix the line has, ModeRequired when there is none.
ModeIn(s, order) ==
    LET hits == {i \in 1..4 : HasPrefix(s, PrefixOfMode(order[i]))} IN
    IF hits = {} THEN ModeRequired
    ELSE order[CHOOSE i \in hits : \A j \in hits : i <= j]

\* ParseDependency when the map is ranged over in the given order.
ParseDependencyIn(s, order) == ParseWithMode(s, ModeIn(s, order))

\* DependencyVersion.String: the version, without the operator.
DependencyVersionString(v) ==
    IF v.Version = <<>> THEN <<>> ELSE VersionString(v.Version)

\* Dependency.String
DependencyString(d) ==
    (IF d.Mode # ModeRequired THEN ModeString(d.Mode) \o <<" ">> ELSE <<>>)
    \o d.Name
    \o (IF d.Version # NoVersion
        THEN <<" ">> \o DependencyVersionString(d.Version) ELSE <<>>)

(***************************************************************************)
(* facmod install: runInstall                                              *)
(***************************************************************************)
\* The dependencies member of the info.json inside the archive of a mod.
RawDependencies(name) ==
    CASE name = Str_a -> <<<<"b", "a", "s", "e", " ", ">", "=", " ", "1", ".", "1">>, <<"b">>>>
      [] name = Str_b -> <<<<"b", "a", "s", "e">>, <<"c", " ", ">", "=", " ", "1", ".", "0">>>>
      [] name = Str_c -> <<<<"b", "a", "s", "e">>, <<"(", "?", ")", " ", "b", "a", "s", "e">>>>
      [] name = Str_x -> <<<<"~", " ", "b">>, <<"?", " ", "c", " ", ">", "=", " ", "2", ".", "0">>, <<"!", " ", "a">>>>
      [] name = Str_e -> <<<<"c", " ", ">", "=", " ", "x">>>>
      [] OTHER -> <<>>

\* mods.LoadInfo(cachedPath): the archive must be whole to be read.
LoadInfo(files, path) ==
    IF ModFile(path, TRUE) \in files
    THEN [res |-> "ok", RawDependencies |-> RawDependencies(path.name)]
    ELSE [res |-> "err", RawDependencies |-> <<>>]

\* Info.Dependencies: every line is parsed, the first one that is refused
\* is the error; the others go to Optional, Conflicts or Required.
IsOptionalOnly(d) == d.Mode = ModeOptional
IsOptional(d) == HasMode(d.Mode, ModeOptional)
IsConflict(d) == ~IsOptional(d) /\ HasMode(d.Mode, ModeConflict)
IsRequired(d) == ~IsOptional(d) /\ ~HasMode(d.Mode, ModeConflict)
Dependencies(lines) ==
    LET parsed == [i \in DOMAIN lines |-> ParseDependency(lines[i])] IN
    IF \E i \in DOMAIN parsed : parsed[i].res # "ok"
    THEN [res |-> "err", Required |-> <<>>, Optional |-> <<>>,
          Conflicts |-> <<>>]
    ELSE [res |-> "ok",
          Required |-> SelectSeq(parsed, IsRequired),
          Optional |-> SelectSeq(parsed, IsOptional),
          Conflicts |-> SelectSeq(parsed, IsConflict)]

\* Info.Dependencies of the manifests the portal serves, worked out once.
Manifests == {RawDependencies(n) : n \in {Str_a, Str_b, Str_c, Str_x, Str_e}}
ManifestDependencies == [lines \in Manifests \cup {<<>>} |-> Dependencies(lines)]

\* What a run of install has done so far: the mods directory, the map
\* toInstall, the names Get was called with, the error if any, whether that
\* error wraps its cause, and whether the loop over toInstall was entered.
InstallStart(files) ==
    [files |-> files, toInstall |-> {}, gets |-> <<>>, res |-> "ok",
     wraps |-> TRUE, applied |-> FALSE]

\* toInstall[name] = cachedPath
MapPut(plan, name, path) ==
    {e \in plan : e.name # name} \cup {[name |-> name, path |-> path]}

\* The failure a run is made to meet: the download of one mod fails ("net")
\* or breaks off ("copy").
NoFault == [name |-> <<>>, kind |-> "none"]
FaultOf(fault, name) == IF fault.name = name THEN fault.kind ELSE "none"

\* cache.Get as called by runInstall, on the run st.
InstallGet(st, name, creds, fault) ==
    LET o == GetOutcome(st.files, name, creds[1], creds[2], FaultOf(fault, name))
    IN [o |-> o,
        st |-> [st EXCEPT !.files = o.files, !.gets = Append(@, name)]]

\* d.Name == "base"
IsBaseNever(name) == FALSE
IsBase(name) == name = Str_base

\* The loop over deps.Required, from the i-th on.  A result that the rest
\* of the loop reads more than once is bound as the one member of a set, so
\* that it is worked out once, as the Go variable is assigned once.
RECURSIVE InstallRequired(_, _, _, _, _)
InstallRequired(st, deps, i, creds, fault) ==
    IF i > Len(deps) THEN st
    ELSE IF IsBase(deps[i].Name)
    THEN InstallRequired(st, deps, i + 1, creds, fault)
    ELSE CHOOSE end \in
           {IF g.o.res # "ok"
            THEN \* fmt.Errorf("get %s ", d)
                 [g.st EXCEPT !.res = "err", !.wraps = FALSE]
            ELSE InstallRequired(
                     [g.st EXCEPT !.toInstall = MapPut(@, deps[i].Name, g.o.val)],
                     deps, i + 1, creds, fault)
            : g \in {InstallGet(st, deps[i].Name, creds, fault)}} : TRUE

\* The loop over deps.Optional, from the i-th on.
RECURSIVE InstallOptional(_, _, _, _, _)
InstallOptional(st, deps, i, creds, fault) ==
    IF i > Len(deps) THEN st
    ELSE CHOOSE end \in
           {IF g.o.res # "ok"
            THEN \* fmt.Errorf("get %s_%s", d.Name, d.Version)
                 [g.st EXCEPT !.res = "err", !.wraps = FALSE]
            ELSE InstallOptional(
                     [g.st EXCEPT !.toInstall = MapPut(@, deps[i].Name, g.o.val)],
                     deps, i + 1, creds, fault)
            : g \in {InstallGet(st, deps[i].Name, creds, fault)}} : TRUE

\* if installOptional { ... }
OptionalWantedAlways(installOptional) == TRUE
OptionalWanted(installOptional) == installOptional

\* What the loop does with a requested mod after its Get: g is the result
\* of the Get, st1 the run with the mod in toInstall.
RECURSIVE InstallMods(_, _, _, _, _, _)
InstallDependencies(g, st1, mm, i, installOptional, creds, fault) ==
    LET info == LoadInfo(st1.files, g.o.val)
        deps == ManifestDependencies[info.RawDependencies]
    IN
    IF info.res # "ok" THEN [st1 EXCEPT !.res = "err"]
    ELSE IF deps.res # "ok" THEN [st1 EXCEPT !.res = "err"]
    ELSE CHOOSE end \in
           {IF st2.res # "ok" THEN st2
            ELSE CHOOSE end3 \in
                   {IF st3.res # "ok" THEN st3
                    ELSE InstallMods(st3, mm, i + 1, installOptional, creds,
                                     fault)
                    : st3 \in {IF OptionalWanted(installOptional)
                               THEN InstallOptional(st2, deps.Optional, 1,
                                                    creds, fault)
                               ELSE st2}} : TRUE
            : st2 \in {InstallRequired(st1, deps.Required, 1, creds, fault)}}
           : TRUE

\* The loop over the sorted requested mods, from the i-th on.
InstallMods(st, mm, i, installOptional, creds, fault) ==
    IF i > Len(mm) THEN st
    ELSE CHOOSE end \in
           {IF g.o.res # "ok" THEN [g.st EXCEPT !.res = "err"]
            ELSE InstallDependencies(
                     g, [g.st EXCEPT !.toInstall = MapPut(@, mm[i], g.o.val)],
                     mm, i, installOptional, creds, fault)
            : g \in {InstallGet(st, mm[i], creds, fault)}} : TRUE

\* slices.SortFunc(mm, ...): by name in byte order (two entries of one name
\* have one version).
RECURSIVE InsertSorted(_, _)
InsertSorted(sorted, n) ==
    IF sorted = <<>> THEN <<n>>
    ELSE IF TextGeq(Head(sorted), n) THEN <<n>> \o sorted
    ELSE <<Head(sorted)>> \o InsertSorted(Tail(sorted), n)
RECURSIVE SortNames(_)
SortNames(names) ==
    IF names = <<>> THEN <<>>
    ELSE InsertSorted(SortNames(Tail(names)), Head(names))

\* runInstall(args) with the credentials of the player data.
InstallOutcome(files, args, installOptional, creds, fault) ==
    LET start == InstallStart(files)
        failed == [start EXCEPT !.res = "err"]
        lookedUp(n) == /\ DownloadURLOutcome(n, "none").res = "ok"
                       /\ LatestVersionOutcome(n, "none").res = "ok"
        st == InstallMods(start, SortNames(args), 1, installOptional, creds,
                          fault)
    IN
    IF args = <<>> THEN failed
    ELSE IF creds[1] = "" \/ creds[2] = "" THEN failed
    ELSE IF \E i \in DOMAIN args : ~lookedUp(args[i]) THEN failed
    ELSE CHOOSE end \in
           {IF run.res # "ok" THEN run ELSE [run EXCEPT !.applied = TRUE]
            : run \in {st}} : TRUE

runInstall(args, installOptional, creds, fault) ==
    /\ \E o \in {InstallOutcome(modFiles, args, installOptional, creds, fault)} :
       /\ modFiles' = o.files
       /\ last' = [NoCall EXCEPT
                     !.op = "install", !.res = o.res,
                     !.arg = [NoArg EXCEPT !.args = args,
                                           !.installOptional = installOptional,
                                           !.username = creds[1],
                                           !.token = creds[2],
                                           !.name = fault.name,
                                           !.fault = fault.kind],
                     !.val = [toInstall |-> o.toInstall, gets |-> o.gets,
                              wraps |-> o.wraps, applied |-> o.applied]]
    /\ UNCHANGED <<mu, calls, categories, mods, latest_releases, dirs,
                   cachedResultsPath, showProgressBar>>

(***************************************************************************)
(* The ingestion specification: one handle, any order of calls             *)
(***************************************************************************)
Init ==
    /\ categories = <<>>
    /\ mods = <<>>
    /\ latest_releases = <<>>
    /\ dirs = [d \in DirIds |-> NoDir]
    /\ mu = 0
    /\ calls = NoCalls
    /\ cachedResultsPath = NoPath
    /\ showProgressBar = FALSE
    /\ modFiles = {}
    /\ last = NoCall

DoPull == \E cat \in Catalogs : \E failPage \in 0..Len(cat) : Pull(cat, failPage)
DoClean == \E failDir \in 0..MaxDirs : Clean(failDir)

Next ==
    \/ DoPull
    \/ Update
    \/ DoClean
    \/ EnableProgressBar
    \/ DisableProgressBar
    \/ OpenCache

Spec == Init /\ [][Next]_vars

(***************************************************************************)
(* The lookup specification: a cache that was updated, then read           *)
(***************************************************************************)
\* The streams the store was updated from.
LookupStreams ==
    {<<>>, <<"ab1", "AB">>, <<"AB", "axb", "abc">>,
     <<"ab1", "AB", "ab2", "axb", "abc">>}

LookupNames == {<<>>, Str_a, Str_ab, Str_Ab, Str_AB, Str_axb, Str_abc}
GetNames == {<<>>, Str_a, Str_ab, Str_AB, Str_abc}
SearchTerms == {<<>>, Str_ab, Str_AB, Str_a_b, Str_pct, Str_x}
CategoryLists ==
    {<<>>, <<"content", "utilities">>, <<"">>, <<"content", "brand-new">>}

InitLookup ==
    /\ \E stream \in LookupStreams :
          LET db == UpdateFn(DB(<<>>, <<>>, <<>>), stream, NoFail, TRUE).db IN
          /\ categories = db.categories
          /\ mods = db.mods
          /\ latest_releases = db.latest_releases
    /\ dirs = [d \in DirIds |-> NoDir]
    /\ mu = 0
    /\ calls = NoCalls
    /\ cachedResultsPath = NoPath
    /\ showProgressBar = TRUE
    /\ modFiles = {}
    /\ last = NoCall

DoGet ==
    \E name \in GetNames, username \in {"", "u"}, token \in {"", "t"},
       fault \in Faults :
        Get(name, username, token, fault)
DoLatestVersion ==
    \E name \in LookupNames, fault \in {"none", "db"} : LatestVersion(name, fault)
DoDownloadURL ==
    \E name \in LookupNames, fault \in {"none", "db"} : DownloadURL(name, fault)
DoSearch ==
    \E term \in SearchTerms, cats \in CategoryLists, sortByDate \in BOOLEAN,
       nameOnly \in BOOLEAN, fault \in {"none", "db"} :
        Search(term, cats, sortByDate, nameOnly, fault)

NextLookup ==
    \/ DoGet
    \/ DoLatestVersion
    \/ DoDownloadURL
    \/ DoSearch

SpecLookup == InitLookup /\ [][NextLookup]_vars

(***************************************************************************)
(* The install specification: runs of facmod install on an updated cache   *)
(***************************************************************************)
InstallStream == <<"m_a", "m_b", "m_c", "m_x", "m_e">>

InstallArgs ==
    {<<>>, <<Str_a>>, <<Str_c>>, <<Str_x>>, <<Str_e>>, <<Str_x, Str_a>>,
     <<Str_base>>}
InstallFaults ==
    {NoFault, [name |-> Str_a, kind |-> "copy"],
     [name |-> Str_b, kind |-> "net"], [name |-> Str_c, kind |-> "net"]}

InitInstall ==
    /\ LET db == UpdateFn(DB(<<>>, <<>>, <<>>), InstallStream, NoFail, TRUE).db IN
          /\ categories = db.categories
          /\ mods = db.mods
          /\ latest_releases = db.latest_releases
    /\ dirs = [d \in DirIds |-> NoDir]
    /\ mu = 0
    /\ calls = NoCalls
    /\ cachedResultsPath = NoPath
    /\ showProgressBar = TRUE
    /\ modFiles = {}
    /\ last = NoCall

DoInstall ==
    \E args \in InstallArgs, installOptional \in BOOLEAN :
        \/ \E fault \in InstallFaults :
              runInstall(args, installOptional, <<"u", "t">>, fault)
        \/ \E creds \in {<<"", "t">>, <<"u", "">>} :
              runInstall(args, installOptional, creds, NoFault)

NextInstall == DoInstall

SpecInstall == InitInstall /\ [][NextInstall]_vars

(***************************************************************************)
(* The dependency specification: ParseDependency and Dependency.String on  *)
(* dependency lines and values drawn from bounded sets                     *)
(***************************************************************************)
Str_flib == <<"f", "l", "i", "b">>
Str_Flow_Control ==
    <<"F", "l", "o", "w", " ", "C", "o", "n", "t", "r", "o", "l">>
Str_0_12_0 == <<"0", ".", "1", "2", ".", "0">>
Str_3_0_5 == <<"3", ".", "0", ".", "5">>

\* The modes a prefix stands for, and Required for none.
DependencyModes ==
    {ModeRequired, ModeOptional, ModeHidden + ModeOptional, ModeConflict,
     ModeNoAffectLoadOrder}
DependencyNames == {Str_flib, Str_Flow_Control, Str_x}
DependencyOps == {EqOps[i] : i \in DOMAIN EqOps}
DependencyVersions == {Str_0_12_0, Str_3_0_5, Str_1_1}

\* The line of the inputs of TestParseDependency: the prefix and a space
\* unless the mode is Required, the name, and with an operator a space,
\* the operator, a space and the version.  op is <<>> for no constraint.
DependencyLine(mode, name, op, version) ==
    (IF mode # ModeRequired THEN ModeString(mode) \o <<" ">> ELSE <<>>)
    \o name
    \o (IF op # <<>> THEN <<" ">> \o op \o <<" ">> \o version ELSE <<>>)

DependencyLines ==
    {DependencyLine(m, n, <<>>, <<>>) :
        m \in DependencyModes, n \in DependencyNames}
    \cup {DependencyLine(c[1], c[2], c[3], c[4]) :
            c \in DependencyModes \X DependencyNames \X DependencyOps
                  \X DependencyVersions}

\* Texts semver.NewVersion refuses: a word, the empty text, a field that is
\* no number, a fourth field.
Str_1_x == <<"1", ".", "x">>
Str_1_2_3_4 == <<"1", ".", "2", ".", "3", ".", "4">>
BadVersions == {Str_x, <<>>, Str_1_x, Str_1_2_3_4}

\* Lines with an operator whose version semver.NewVersion refuses.
BadLines ==
    {DependencyLine(c[1], c[2], c[3], c[4]) :
        c \in DependencyModes \X DependencyNames \X DependencyOps
              \X BadVersions}

\* The empty line and the lines that are a prefix and nothing else.
BareLines == {ModeString(m) : m \in DependencyModes}

\* Dependency values: a name, a mode and a nil or set Version.
DependencyValues ==
    [Name : DependencyNames,
     Version : {NoVersion}
               \cup [Op : DependencyOps,
                     Version : {NewVersionText(v).val : v \in DependencyVersions}],
     Mode : DependencyModes]

InitDeps ==
    /\ categories = <<>>
    /\ mods = <<>>
    /\ latest_releases = <<>>
    /\ dirs = [d \in DirIds |-> NoDir]
    /\ mu = 0
    /\ calls = NoCalls
    /\ cachedResultsPath = NoPath
    /\ showProgressBar = TRUE
    /\ modFiles = {}
    /\ last = NoCall

\* ParseDependency(s)
DoParseDependency ==
    \E s \in DependencyLines \cup BadLines \cup BareLines :
        LET d == ParseDependency(s) IN
        /\ last' = [NoCall EXCEPT !.op = "parse", !.res = d.res,
                                  !.arg.name = s, !.val = d]
        /\ UNCHANGED <<mu, calls, categories, mods, latest_releases, dirs,
                       cachedResultsPath, showProgressBar, modFiles>>

\* ParseDependency(d.String())
DoDependencyString ==
    \E d \in DependencyValues :
        LET s == DependencyString(d)
            back == ParseDependency(s)
        IN
        /\ last' = [NoCall EXCEPT !.op = "string", !.res = back.res,
                                  !.arg.name = s,
                                  !.val = [d |-> d, back |-> back]]
        /\ UNCHANGED <<mu, calls, categories, mods, latest_releases, dirs,
                       cachedResultsPath, showProgressBar, modFiles>>

\* The dependencies members of manifests: up to three lines, one for each
\* mode, one with a constraint and one that ParseDependency refuses.
ManifestLines ==
    {DependencyLine(m, Str_x, <<>>, <<>>) : m \in DependencyModes}
    \cup {DependencyLine(ModeOptional, Str_flib, <<">", "=">>, Str_1_1),
          DependencyLine(ModeRequired, Str_flib, <<"=">>, Str_x)}
RawDependencyLists ==
    {<<>>} \cup {<<a>> : a \in ManifestLines}
    \cup {<<l[1], l[2]>> : l \in ManifestLines \X ManifestLines}
    \cup {<<DependencyLine(ModeNoAffectLoadOrder, Str_x, <<>>, <<>>), l[1], l[2]>> :
             l \in ManifestLines \X ManifestLines}

\* Info.Dependencies()
DoDependencies ==
    \E lines \in RawDependencyLists :
        \E deps \in {Dependencies(lines)} :
        /\ last' = [NoCall EXCEPT !.op = "dependencies", !.res = deps.res,
                                  !.arg.args = lines, !.val = deps]
        /\ UNCHANGED <<mu, calls, categories, mods, latest_releases, dirs,
                       cachedResultsPath, showProgressBar, modFiles>>

NextDeps == DoParseDependency \/ DoDependencyString \/ DoDependencies

SpecDeps == InitDeps /\ [][NextDeps]_vars

(***************************************************************************)
(* Installed mods: parseVersion, modpath.version, findInstalledVersions    *)
(***************************************************************************)
\* strings.LastIndex: the byte offset of the last occurrence, -1 for none.
LastIndex(s, sub) ==
    LET at == {k \in 0..(Len(s) - Len(sub)) : SubSeq(s, k + 1, k + Len(sub)) = sub}
    IN IF at = {} THEN -1 ELSE CHOOSE k \in at : \A o \in at : k >= o

\* strings.SplitN(s, ".", n): the texts between the dots, the n-th one being
\* the whole rest of s.
RECURSIVE SplitN(_, _)
SplitN(s, n) ==
    LET i == Index(s, <<".">>) IN
    IF n <= 1 \/ i = -1 THEN <<s>>
    ELSE <<SubSeq(s, 1, i)>> \o SplitN(SubSeq(s, i + 2, Len(s)), n - 1)

\* strconv.Atoi: an optional sign and one or more digits.
Atoi(s) ==
    LET signed == s # <<>> /\ Head(s) \in {"+", "-"}
        n == ParseUint(IF signed THEN Tail(s) ELSE s)
    IN IF n = -1 THEN [err |-> TRUE, n |-> 0]
       ELSE [err |-> FALSE, n |-> IF signed /\ Head(s) = "-" THEN 0 - n ELSE n]

\* parseVersion on the text of a version.
FieldAlways0(fields, i) == 0
FieldOr0(fields, i) ==
    IF Len(fields) >= i /\ ~Atoi(fields[i]).err THEN Atoi(fields[i]).n ELSE 0
parseVersionText(version) ==
    LET fields == SplitN(version, 3) IN
    [Major |-> FieldOr0(fields, 1), Minor |-> FieldOr0(fields, 2),
     Patch |-> FieldOr0(fields, 3)]

\* Version{}
ZeroVersion == [Major |-> 0, Minor |-> 0, Patch |-> 0]

\* modpath.version on a base name.  A slice expression whose bounds are out
\* of order panics.
Str_zip == <<".", "z", "i", "p">>
modpathVersion(base) ==
    LET i == LastIndex(base, <<"_">>)
        j == LastIndex(base, Str_zip)
    IN IF i = -1 THEN [res |-> "ok", val |-> ZeroVersion]
       ELSE IF j < i + 1 THEN [res |-> "panic", val |-> ZeroVersion]
       ELSE [res |-> "ok", val |-> parseVersionText(SubSeq(base, i + 2, j))]

\* filepath.Glob of <name>_*.zip on the files of the mods directory.
GlobMatch(name, file) ==
    /\ Len(file) >= Len(name) + 1 + Len(Str_zip)
    /\ HasPrefix(file, name \o <<"_">>)
    /\ SubSeq(file, Len(file) - Len(Str_zip) + 1, Len(file)) = Str_zip

\* The comparison findInstalledVersions sorts with.
CompareMajorOnly(a, b) ==
    IF a.Major > b.Major THEN 3 ELSE IF a.Major < b.Major THEN -3 ELSE 0
CompareVersions(a, b) ==
    IF a.Major > b.Major THEN 3
    ELSE IF a.Major < b.Major THEN -3
    ELSE IF a.Minor > b.Minor THEN 2
    ELSE IF a.Minor < b.Minor THEN -2
    ELSE IF a.Patch > b.Patch THEN 1
    ELSE IF a.Patch < b.Patch THEN -1
    ELSE 0

\* slices.SortFunc(versions, ...): each element goes before the first one
\* the comparison puts after it.
RECURSIVE InsertVersion(_, _)
InsertVersion(sorted, v) ==
    IF sorted = <<>> THEN <<v>>
    ELSE IF CompareVersions(Head(sorted), v) > 0 THEN <<v>> \o sorted
    ELSE <<Head(sorted)>> \o InsertVersion(Tail(sorted), v)
RECURSIVE SortVersions(_)
SortVersions(versions) ==
    IF versions = <<>> THEN <<>>
    ELSE InsertVersion(SortVersions(SubSeq(versions, 1, Len(versions) - 1)),
                       versions[Len(versions)])

\* M.findInstalledVersions for the mod name, listing being the files of the
\* mods directory in the order Glob meets them.
findInstalledVersions(name, listing) ==
    LET matches == SelectSeq(listing, LAMBDA f : GlobMatch(name, f))
        versions == [i \in DOMAIN matches |-> modpathVersion(matches[i])]
    IN IF \E i \in DOMAIN versions : versions[i].res = "panic"
       THEN [res |-> "panic", matches |-> matches, Versions |-> <<>>]
       ELSE [res |-> "ok", matches |-> matches,
             Versions |-> SortVersions([i \in DOMAIN versions |-> versions[i].val])]

(***************************************************************************)
(* The version specification: the version functions on texts and file      *)
(* names drawn from bounded sets                                           *)
(***************************************************************************)
\* The version part of file names: three fields, fewer, none, fields that
\* are no number, a fourth field, signs, an underscore.
VersionTexts ==
    {<<"1", ".", "2", ".", "3">>, <<"1", ".", "2", ".", "4">>,
     <<"2", ".", "0", ".", "0">>, <<"1", ".", "9", ".", "9">>,
     <<"1", ".", "1", "0", ".", "0">>, <<"1">>, <<"1", ".", "2">>, <<>>,
     <<"x">>, <<"1", ".", "x", ".", "3">>, <<"x", ".", "2">>,
     <<"1", ".", "2", ".", "3", ".", "4">>, <<"-", "1", ".", "+", "2">>,
     <<"1", "_", "2">>, <<".">>, <<"1", ".", ".", "3">>}

\* The archive of version 1.2.3 of the mod x_ab.
File_x_ab == Str_x \o <<"_">> \o Str_ab \o <<"_", "1", ".", "2", ".", "3">>
             \o Str_zip

\* The files of a mods directory: the archives of the mod x, that of the mod
\* x_ab, and files the pattern x_*.zip does not match.
ModFileNames ==
    {Str_x \o <<"_">> \o v \o Str_zip : v \in VersionTexts}
    \cup {File_x_ab}
    \cup {Str_x \o Str_zip, Str_ab \o <<"_", "1">> \o Str_zip,
          Str_x \o <<"_", "1", ".", "z", "i">>}

\* Listings of up to MaxListing files of the directory.
MaxListing == 3
Listings ==
    UNION {[1..n -> ModFileNames] : n \in 0..MaxListing}

\* A text or a file name to work on, or the listing of a mods directory.
InitVersions ==
    /\ categories = <<>>
    /\ mods = <<>>
    /\ latest_releases = <<>>
    /\ dirs = [d \in DirIds |-> NoDir]
    /\ mu = 0
    /\ calls = NoCalls
    /\ cachedResultsPath = NoPath
    /\ showProgressBar = TRUE
    /\ modFiles = {}
    /\ \/ \E text \in VersionTexts \cup ModFileNames :
             last = [NoCall EXCEPT !.arg.name = text]
       \/ \E listing \in Listings :
             last = [NoCall EXCEPT !.arg.args = listing]

\* parseVersion(version)
DoParseVersion ==
    /\ last.arg.name \in VersionTexts
    /\ last' = [NoCall EXCEPT !.op = "parseVersion", !.arg = last.arg,
                              !.val = parseVersionText(last.arg.name)]
    /\ UNCHANGED <<mu, calls, categories, mods, latest_releases, dirs,
                   cachedResultsPath, showProgressBar, modFiles>>

\* modpath(match).version() for a match of x_*.zip
DoModpathVersion ==
    /\ GlobMatch(Str_x, last.arg.name)
    /\ \E v \in {modpathVersion(last.arg.name)} :
          last' = [NoCall EXCEPT !.op = "version", !.res = v.res,
                                 !.arg = last.arg, !.val = v.val]
    /\ UNCHANGED <<mu, calls, categories, mods, latest_releases, dirs,
                   cachedResultsPath, showProgressBar, modFiles>>

\* m.findInstalledVersions(installDir) for the mod x
DoFindInstalledVersions ==
    /\ \E r \in {findInstalledVersions(Str_x, last.arg.args)} :
          last' = [NoCall EXCEPT !.op = "findInstalledVersions",
                                 !.res = r.res, !.arg = last.arg,
                                 !.val = r.Versions]
    /\ UNCHANGED <<mu, calls, categories, mods, latest_releases, dirs,
                   cachedResultsPath, showProgressBar, modFiles>>

NextVersions == DoParseVersion \/ DoModpathVersion \/ DoFindInstalledVersions

SpecVersions == InitVersions /\ [][NextVersions]_vars

(***************************************************************************)
(* Concurrent calls on one Cache                                           *)
(*                                                                         *)
(* The calls of several goroutines on one handle, step by step: what each  *)
(* does with c.mu and with its transaction (withLock, withTx).  A panic    *)
(* ends the process, so no caller takes a step after one.                  *)
(***************************************************************************)
Free(t) == calls[t].pc \in {"idle", "done"}
Crashed == \E t \in Threads : calls[t].res = "panic"
Call(t, c) == calls' = [calls EXCEPT ![t] = c]

\* The call has returned res.
Done(c, res) ==
    [Idle EXCEPT !.op = c.op, !.pc = "done", !.cancelled = c.cancelled,
                 !.res = res]

\* withTx has returned res to the method: Search has c.mu to release (the
\* deferred Unlock of withLock), the other methods return.
AfterTx(c, res) ==
    IF c.op = "Search"
    THEN [Idle EXCEPT !.op = c.op, !.pc = "unlock", !.res = res]
    ELSE Done(c, res)

\* Update, up to the progress bar: progressBarEnabled locks c.mu.
UpdateStart(t) ==
    /\ ~Crashed
    /\ Free(t)
    /\ mu = 0
    /\ Call(t, [Idle EXCEPT !.op = "Update", !.pc = "stage",
                            !.bar = showProgressBar])
    /\ UNCHANGED <<categories, mods, latest_releases, dirs,
                   cachedResultsPath, showProgressBar, modFiles, last, mu>>

\* Update once the implicit Pull, if any, has ended with outcome o: the
\* results file is opened.
UpdateOpen(t, o) ==
    LET dirs1 == IF o.made THEN [dirs EXCEPT ![NewDir] = o.dir] ELSE dirs
        path1 == IF o.made THEN StagedAfterPull(o, cachedResultsPath, NewDir)
                 ELSE cachedResultsPath
    IN
    /\ dirs' = dirs1
    /\ cachedResultsPath' = path1
    /\ IF o.res # "ok" \/ ~dirs1[path1].exists
       THEN Call(t, Done(calls[t], "err"))
       ELSE Call(t, [calls[t] EXCEPT !.pc = "begin", !.file = path1])

\* The catalogs the implicit Pull of a concurrent Update reads: those of at
\* most two pages.
TxCatalogs == {cat \in Catalogs : Len(cat) <= 2}

\* Update from pullRequired to the opened results file; the two withLock
\* calls and the one at the end of Pull need c.mu free.
UpdateStage(t) ==
    /\ ~Crashed
    /\ calls[t].op = "Update"
    /\ calls[t].pc = "stage"
    /\ mu = 0
    /\ IF pullRequired(cachedResultsPath)
       THEN /\ FreeDirs # {}
            /\ \E cat \in TxCatalogs : \E failPage \in 0..Len(cat) :
                  UpdateOpen(t, PullOutcome(cat, failPage))
       ELSE UpdateOpen(t, NoPull)
    /\ UNCHANGED <<categories, mods, latest_releases, showProgressBar,
                   modFiles, last, mu>>

\* Search up to withLock: c.mu.Lock().
SearchLock(t) ==
    /\ ~Crashed
    /\ Free(t)
    /\ mu = 0
    /\ mu' = t
    /\ Call(t, [Idle EXCEPT !.op = "Search", !.pc = "begin"])
    /\ UNCHANGED <<categories, mods, latest_releases, dirs,
                   cachedResultsPath, showProgressBar, modFiles, last>>

\* DownloadURL and LatestVersion up to withTx: no lock is taken.
LookupStart(t, op) ==
    /\ ~Crashed
    /\ Free(t)
    /\ Call(t, [Idle EXCEPT !.op = op, !.pc = "begin"])
    /\ UNCHANGED <<categories, mods, latest_releases, dirs,
                   cachedResultsPath, showProgressBar, modFiles, last, mu>>

\* withTx: c.db.BeginTx(ctx, nil); failed says whether it returns an error.
TxBegin(t, failed) ==
    /\ ~Crashed
    /\ calls[t].pc = "begin"
    /\ IF failed
       THEN Call(t, AfterTx(calls[t], "err"))
       ELSE Call(t, [calls[t] EXCEPT !.pc = "fn", !.tx = TRUE])
    /\ UNCHANGED <<categories, mods, latest_releases, dirs,
                   cachedResultsPath, showProgressBar, modFiles, last, mu>>

\* The function of Search, DownloadURL or LatestVersion inside withTx: its
\* query, with the error it returns or none.
TxQuery(t, failed) ==
    /\ ~Crashed
    /\ calls[t].pc = "fn"
    /\ calls[t].op # "Update"
    /\ Call(t, [calls[t] EXCEPT !.pc = IF failed THEN "rollback"
                                       ELSE "commit"])
    /\ UNCHANGED <<categories, mods, latest_releases, dirs,
                   cachedResultsPath, showProgressBar, modFiles, last, mu>>

\* The function of Update inside withTx, up to the loop: the three
\* PrepareContext calls, which fail on a cancelled context.
UpdatePrepare(t, failed) ==
    /\ ~Crashed
    /\ calls[t].pc = "fn"
    /\ calls[t].op = "Update"
    /\ IF failed \/ calls[t].cancelled
       THEN Call(t, [calls[t] EXCEPT !.pc = "rollback"])
       ELSE Call(t, [calls[t] EXCEPT !.pc = "loop", !.i = 1])
    /\ UNCHANGED <<categories, mods, latest_releases, dirs,
                   cachedResultsPath, showProgressBar, modFiles, last, mu>>

\* An other transaction has statements pending: SQLite lets one
\* transaction write at a time.
OtherWriter(t) ==
    \E u \in Threads \ {t} : calls[u].tx /\ calls[u].db # <<>>

\* The statements that may fail for one entry of the loop.
EntryFails ==
    {NoFail} \cup {[at |-> 1, kind |-> k] :
                      k \in {"decode", "category", "mod", "release"}}

\* One round of the loop of Update: an entry is decoded and inserted, or
\* the end of the stream is found.  ExecContext fails on a cancelled
\* context; the first statement fails when an other transaction is
\* writing (or waits for it, which is this step not being taken).
UpdateEntry(t, fail) ==
    LET c == calls[t]
        stream == dirs[c.file].stream
        base == IF c.db = <<>> THEN DB(categories, mods, latest_releases)
                ELSE c.db
    IN
    /\ ~Crashed
    /\ c.pc = "loop"
    /\ IF c.i > Len(stream)
       THEN /\ fail.kind \in {"none", "decode"}
            /\ Call(t, [c EXCEPT !.pc =
                          IF UpdateLoop(base, <<>>, 1, fail, c.bar).res = "ok"
                          THEN "commit" ELSE "rollback"])
       ELSE IF c.cancelled \/ (c.db = <<>> /\ OtherWriter(t))
       THEN /\ fail = NoFail
            /\ Call(t, [c EXCEPT !.pc = "rollback"])
       ELSE \E r \in {UpdateLoop(base, <<stream[c.i]>>, 1, fail, c.bar)} :
               Call(t, CASE r.res = "ok" ->
                              [c EXCEPT !.db = r.db, !.i = c.i + 1]
                         [] r.res = "err" ->
                              [c EXCEPT !.db = r.db, !.pc = "rollback"]
                         [] r.res = "panic" ->
                              [c EXCEPT !.db = r.db, !.pc = "panicked",
                                        !.res = "panic"])
    /\ UNCHANGED <<categories, mods, latest_releases, dirs,
                   cachedResultsPath, showProgressBar, modFiles, last, mu>>

\* tx.Commit() returns an error: on a fault of the database, and whenever
\* the context given to BeginTx has been cancelled (database/sql).
CommitFailsOnFault(c, fault) == fault
CommitFails(c, fault) == fault \/ c.cancelled

\* withTx once fn has returned: tx.Rollback() after an error, tx.Commit()
\* otherwise.
TxEnd(t, fault) ==
    LET c == calls[t]
        db == DB(categories, mods, latest_releases)
        r == [db |-> IF c.db = <<>> THEN db ELSE c.db,
              res |-> IF c.pc = "commit" THEN "ok" ELSE "err"]
        fail == IF CommitFails(c, fault) THEN [at |-> 0, kind |-> "commit"]
                ELSE NoFail
    IN
    /\ ~Crashed
    /\ c.pc \in {"commit", "rollback"}
    /\ c.pc = "rollback" => ~fault
    /\ \E new \in {withTx(db, r, fail)} :
          /\ categories' = new.categories
          /\ mods' = new.mods
          /\ latest_releases' = new.latest_releases
    /\ Call(t, AfterTx(c, IF c.pc = "commit" /\ fail = NoFail
                          THEN "ok" ELSE "err"))
    /\ UNCHANGED <<dirs, cachedResultsPath, showProgressBar, modFiles, last,
                   mu>>

\* The deferred c.mu.Unlock() of withLock.
SearchUnlock(t) ==
    /\ ~Crashed
    /\ calls[t].pc = "unlock"
    /\ mu' = 0
    /\ Call(t, Done(calls[t], calls[t].res))
    /\ UNCHANGED <<categories, mods, latest_releases, dirs,
                   cachedResultsPath, showProgressBar, modFiles, last>>

\* The context of an Update is cancelled while its transaction is open.
Cancel(t) ==
    /\ ~Crashed
    /\ calls[t].op = "Update"
    /\ calls[t].tx
    /\ ~calls[t].cancelled
    /\ Call(t, [calls[t] EXCEPT !.cancelled = TRUE])
    /\ UNCHANGED <<categories, mods, latest_releases, dirs,
                   cachedResultsPath, showProgressBar, modFiles, last, mu>>

\* A newly opened cache; the progress bar has been switched on or not.
InitTx ==
    /\ categories = <<>>
    /\ mods = <<>>
    /\ latest_releases = <<>>
    /\ dirs = [d \in DirIds |-> NoDir]
    /\ mu = 0
    /\ calls = NoCalls
    /\ cachedResultsPath = NoPath
    /\ showProgressBar \in BOOLEAN
    /\ modFiles = {}
    /\ last = NoCall

NextTx ==
    \E t \in Threads :
       \/ UpdateStart(t)
       \/ UpdateStage(t)
       \/ SearchLock(t)
       \/ \E op \in {"DownloadURL", "LatestVersion"} : LookupStart(t, op)
       \/ \E failed \in BOOLEAN : TxBegin(t, failed)
       \/ \E failed \in BOOLEAN : TxQuery(t, failed)
       \/ \E failed \in BOOLEAN : UpdatePrepare(t, failed)
       \/ \E fail \in EntryFails : UpdateEntry(t, fail)
       \/ \E fault \in BOOLEAN : TxEnd(t, fault)
       \/ SearchUnlock(t)
       \/ Cancel(t)

SpecTx == InitTx /\ [][NextTx]_vars

(***************************************************************************)
(* Properties of the ingestion                                             *)
(***************************************************************************)
HasModRow(n) == \E r \in DOMAIN mods : r.name = n
HasReleaseRow(n) == \E r \in DOMAIN latest_releases : r.name = n
HasRows(n) == HasModRow(n) /\ HasReleaseRow(n)

AllHaveRows(entries) ==
    \A i \in 1..Len(entries) : HasRows(Decode(entries[i]).name)

\* C1: after a successful Pull followed by a successful Update against a
\* catalog of N >= 1 pages, the store holds a mods row and a
\* latest_releases row for every entry of every page 1..N, the entries of
\* the first page included.
C1_AllPagesIngested ==
    (last.op = "Update" /\ last.res = "ok" /\ last.catalog # <<>>)
        => AllHaveRows(CatalogEntries(last.catalog))

\* C2: an Update that returns an error (a staged entry failed to decode,
\* or a category, mod or release write failed) leaves categories, mods and
\* latest_releases exactly as they were before the call.
C2_UpdateAllOrNothing ==
    [][(last'.op = "Update" /\ last'.res = "err") => store' = store]_vars

\* An Update has failed after it had written at least one entry.
C2_Witness ==
    /\ last.op = "Update"
    /\ last.res = "err"
    /\ last.wrote

\* C3: a successful Update that follows a successful Update on the same
\* handle and the same staged stream leaves the three tables as the first
\* one left them.
C3_UpdateIdempotent ==
    [][(/\ Rerun("Update")
        /\ last'.op = "Update"
        /\ last'.res = "ok"
        /\ cachedResultsPath' = cachedResultsPath
        /\ dirs' = dirs) => store' = store]_vars

\* Update has succeeded twice in a row on a stream that has entries.
C3_Witness ==
    /\ last.op = "Update"
    /\ last.res = "ok"
    /\ last.rerun
    /\ cachedResultsPath # NoPath
    /\ dirs[cachedResultsPath].stream # <<>>
    /\ mods # <<>>

\* C4: Update runs one Pull (pages requested once each, from page 1 on)
\* exactly when cachedResultsPath is empty at the call; with a staged
\* result it issues no request, leaves the staged file alone and, when it
\* succeeds, has ingested the entries of that file.
C4_ImplicitPullIffNothingStaged ==
    [][last'.op = "Update" =>
         /\ cachedResultsPath = NoPath =>
               /\ last'.reqs # <<>>
               /\ \A i \in 1..Len(last'.reqs) : last'.reqs[i] = i
         /\ cachedResultsPath # NoPath =>
               /\ last'.reqs = <<>>
               /\ cachedResultsPath' = cachedResultsPath
               /\ dirs' = dirs
               /\ last'.res = "ok" =>
                     /\ dirs[cachedResultsPath].exists
                     /\ \A i \in 1..Len(dirs[cachedResultsPath].stream) :
                           LET n == Decode(dirs[cachedResultsPath].stream[i]).name
                           IN
                           /\ \E r \in DOMAIN mods' : r.name = n
                           /\ \E r \in DOMAIN latest_releases' : r.name = n
      ]_vars

\* An Update has ingested staged entries without issuing a request.
C4_Witness ==
    /\ last.op = "Update"
    /\ last.res = "ok"
    /\ last.reqs = <<>>
    /\ mods # <<>>

\* C5: a Pull that fails leaves the three tables and cachedResultsPath as
\* they were and does not touch the staged file; a call changes
\* cachedResultsPath only to a file that holds all of the pages after the
\* first of the catalog it pulled, and the staged file is never rewritten.
C5_FailedPullStagesNothing ==
    /\ [][(last'.op = "Pull" /\ last'.res = "err") =>
            /\ store' = store
            /\ cachedResultsPath' = cachedResultsPath
            /\ cachedResultsPath # NoPath =>
                  dirs'[cachedResultsPath] = dirs[cachedResultsPath]]_vars
    /\ [][(cachedResultsPath' # cachedResultsPath /\ last'.op # "none") =>
            /\ last'.op \in {"Pull", "Update"}
            /\ last'.catalog # <<>>
            /\ dirs'[cachedResultsPath'] =
                 ResultsDir(EncodePages(last'.catalog, 2, Len(last'.catalog)))
          ]_vars
    /\ [][(cachedResultsPath' = cachedResultsPath /\ cachedResultsPath # NoPath
            /\ dirs'[cachedResultsPath].exists) =>
            dirs'[cachedResultsPath] = dirs[cachedResultsPath]]_vars

\* A Pull has failed after it had encoded entries, on a handle that has a
\* staged result and a store that has rows.
C5_Witness ==
    /\ last.op = "Pull"
    /\ last.res = "err"
    /\ cachedResultsPath # NoPath
    /\ dirs[cachedResultsPath].exists
    /\ mods # <<>>
    /\ \E d \in DirIds :
          d # cachedResultsPath /\ dirs[d].exists /\ dirs[d].stream # <<>>

\* C6: Clean never changes the three tables; when it succeeds no staged
\* results directory is left; a Clean that follows a successful Clean
\* succeeds and changes nothing.
C6_CleanRemovesAllKeepsStore ==
    [][last'.op = "Clean" =>
         /\ store' = store
         /\ last'.res = "ok" => \A d \in DirIds : ~dirs'[d].exists
         /\ Rerun("Clean") =>
               /\ last'.res = "ok"
               /\ dirs' = dirs
               /\ cachedResultsPath' = cachedResultsPath]_vars

\* Clean has succeeded twice in a row on a handle that had staged results
\* and a store that has rows.
C6_Witness ==
    /\ last.op = "Clean"
    /\ last.res = "ok"
    /\ last.rerun
    /\ cachedResultsPath # NoPath
    /\ mods # <<>>

(***************************************************************************)
(* Properties of the lookups                                               *)
(***************************************************************************)
\* The rows of latest_releases named exactly n.
RowsNamed(n) == {r \in DOMAIN latest_releases : r.name = n}

\* The file <n>_<latest version>.zip exists in the mods directory.
CacheHit(n) ==
    \E r \in RowsNamed(n) :
        /\ NewVersion(r.version).res = "ok"
        /\ \E f \in modFiles : f.path = ModPath(n, NewVersion(r.version).val)

\* C7: a Get whose expected artifact <name>_<latest version>.zip is already
\* in the mods directory issues no request and writes no file, and unless
\* the database or the file system refuses the lookup it returns that path,
\* whatever the network does and whatever the credentials are.
C7_GetCachedNoNetwork ==
    [][(last'.op = "Get" /\ CacheHit(last'.arg.name)) =>
          /\ last'.reqs = <<>>
          /\ modFiles' = modFiles
          /\ last'.arg.fault \notin {"db", "mkdir", "stat"} =>
                /\ last'.res = "ok"
                /\ last'.val.name = last'.arg.name
                /\ \E f \in modFiles : f.path = last'.val]_vars

C7_Witness ==
    /\ last.op = "Get" /\ last.res = "ok"
    /\ last.arg.fault = "net" /\ last.arg.username = "" /\ last.arg.token = ""
    /\ CacheHit(last.arg.name)
    /\ last.reqs = <<>>

\* C8: a Get whose expected artifact is not in the mods directory and whose
\* username or token is empty returns an error, issues no request and
\* leaves the mods directory as it was.
C8_GetMissNeedsCredentials ==
    [][(/\ last'.op = "Get"
        /\ ~CacheHit(last'.arg.name)
        /\ last'.arg.username = "" \/ last'.arg.token = "") =>
          /\ last'.res = "err"
          /\ last'.reqs = <<>>
          /\ modFiles' = modFiles]_vars

C8_Witness ==
    /\ last.op = "Get" /\ last.res = "err"
    /\ last.arg.fault = "none"
    /\ last.arg.username = "u" /\ last.arg.token = ""
    /\ \E r \in RowsNamed(last.arg.name) : NewVersion(r.version).res = "ok"
    /\ ~CacheHit(last.arg.name)

\* C9: DownloadURL and LatestVersion return a value only from a row of
\* latest_releases whose name is the argument itself, and for a non-empty
\* name that no row has they return the error "no mod found" and no value
\* (the database answering).
C9_ExactNameLookup ==
    last.op \in {"DownloadURL", "LatestVersion"} =>
        /\ last.res = "ok" =>
              \E r \in RowsNamed(last.arg.name) :
                 IF last.op = "DownloadURL"
                 THEN last.val.Path = r.download_url
                 ELSE /\ Len(r.version) \in 1..3
                      /\ \A i \in 1..Len(r.version) : last.val[i] = r.version[i]
        /\ (/\ RowsNamed(last.arg.name) = {}
            /\ last.arg.name # <<>>
            /\ last.arg.fault = "none") =>
              last.res = "notfound" /\ last.val = <<>>

C9_Witness ==
    /\ last.op = "DownloadURL" /\ last.res = "notfound"
    /\ last.arg.name = Str_ab
    /\ RowsNamed(Str_AB) # {}
    /\ RowsNamed(Str_abc) # {}

\* s contains t as a substring, the case of ASCII letters set aside.
Contains(s, t) ==
    \E k \in 0..(Len(s) - Len(t)) :
        \A i \in 1..Len(t) : Lower(s[k + i]) = Lower(t[i])

\* C10: every mod Search(term) returns has a name that contains the term
\* as a substring (even without regard to the case of letters) and a latest
\* release whose factorio_version is a text >= "1.1".
C10_SearchNameContainsTerm ==
    (last.op = "Search" /\ last.res = "ok") =>
        \A i \in DOMAIN last.val :
            /\ Contains(last.val[i].Name, last.arg.name)
            /\ \E r \in RowsNamed(last.val[i].Name) :
                  r.fv.kind = "text" /\ TextGeq(r.fv.text, Str_1_1)

\* The names Categories() lists: the nine category constants and the empty
\* name.
AvailableCategories == KnownCategories \cup {""}

\* The mods Search would return for the term under the categories cats.
WouldMatch(term, cats) ==
    {m \in DOMAIN mods :
        /\ Contains(m.name, term)
        /\ \E i \in 1..Len(cats) : m.category = cats[i]
        /\ \E r \in RowsNamed(m.name) :
              r.fv.kind = "text" /\ TextGeq(r.fv.text, Str_1_1)}

\* C11: a Search whose category option holds a name that is no available
\* category returns an error and no result, and its query is not handed to
\* the database, also when another name of the option is a category of a
\* stored mod that matches.
C11_UnknownCategoryFails ==
    (/\ last.op = "Search"
     /\ \E i \in 1..Len(last.arg.cats) :
           last.arg.cats[i] \notin AvailableCategories) =>
        last.res = "err" /\ last.val = <<>> /\ ~last.queried

C11_Witness ==
    /\ last.op = "Search" /\ last.res = "err"
    /\ last.arg.name = Str_ab /\ last.arg.fault = "none"
    /\ last.arg.cats = <<"content", "brand-new">>
    /\ WouldMatch(Str_ab, <<"content">>) # {}

\* C12: a Search with the empty term returns an error and no result,
\* whatever the options and the store are.
C12_EmptyTermFails ==
    (last.op = "Search" /\ last.arg.name = <<>>) =>
        last.res = "err" /\ last.val = <<>> /\ ~last.queried

C12_Witness ==
    /\ last.op = "Search" /\ last.res = "err" /\ last.arg.name = <<>>
    /\ last.arg.fault = "none" /\ last.arg.sortByDate
    /\ last.arg.cats = <<"content", "utilities">>
    /\ mods # <<>>

\* C13: a Search without NameOnly returns every stored mod of a supported
\* factorio_version whose summary contains the term.
C13_SummaryMatchedByDefault ==
    (/\ last.op = "Search" /\ last.res = "ok"
     /\ ~last.arg.nameOnly /\ last.arg.cats = <<>>) =>
        \A m \in DOMAIN mods :
            (/\ Contains(m.summary, last.arg.name)
             /\ \E r \in RowsNamed(m.name) :
                   r.fv.kind = "text" /\ TextGeq(r.fv.text, Str_1_1)) =>
                \E i \in DOMAIN last.val : last.val[i].Name = m.name

(***************************************************************************)
(* Properties of facmod install                                            *)
(***************************************************************************)
\* What the manifests of the portal's mods declare: a requires b, b requires
\* c, x requires b, has c as an optional dependency and conflicts with a,
\* c has base as a hidden optional dependency; a, b and c require base.
RequiredOf(n) ==
    CASE n = Str_a -> {Str_b}
      [] n = Str_b -> {Str_c}
      [] n = Str_x -> {Str_b}
      [] OTHER -> {}
OptionalOf(n) ==
    CASE n = Str_x -> {Str_c}
      [] n = Str_c -> {Str_base}
      [] OTHER -> {}

Requested == {last.arg.args[i] : i \in DOMAIN last.arg.args}
PlanNames == {e.name : e \in last.val.toInstall}
Fetched == {last.val.gets[i] : i \in DOMAIN last.val.gets}
CleanRun ==
    /\ last.arg.fault = "none"
    /\ last.arg.username # "" /\ last.arg.token # ""
    /\ \A f \in modFiles : f.complete

\* The mods reachable from the set S over required dependencies.
RECURSIVE RequiredClosure(_)
RequiredClosure(S) ==
    LET T == S \cup UNION {RequiredOf(n) : n \in S} IN
    IF T = S THEN S ELSE RequiredClosure(T)

\* C14: the plan of a successful install holds every mod of the transitive
\* closure of the required dependencies of the requested mods.
C14_PlanHoldsTransitiveClosure ==
    (last.op = "install" /\ last.res = "ok") =>
        RequiredClosure(Requested) \subseteq PlanNames

\* C15: install never calls Get with the name base and never puts base in
\* the plan, whether base is a required or an optional dependency.
C15_BaseAlwaysSkipped ==
    last.op = "install" =>
        Str_base \notin Fetched /\ Str_base \notin PlanNames

\* C16: the plan of a successful install has one entry per name, the path
\* of an entry being <name>_<latest version>.zip of its name whoever put it
\* in; an undisturbed install of c, whose only required dependency is base,
\* succeeds with the one entry c, and an install of x and a has one entry
\* for the b they share.
C16_OneEntryPerName ==
    last.op = "install" =>
        /\ last.res = "ok" =>
              /\ \A e, f \in last.val.toInstall : e.name = f.name => e = f
              /\ \A e \in last.val.toInstall :
                    /\ e.path.name = e.name
                    /\ \E r \in RowsNamed(e.name) :
                          \A i \in 1..3 :
                             e.path.version[i] =
                                IF i <= Len(r.version) THEN r.version[i] ELSE 0
              /\ last.arg.args = <<Str_x, Str_a>> =>
                    Cardinality({e \in last.val.toInstall : e.name = Str_b}) = 1
        /\ (last.arg.args = <<Str_c>> /\ ~last.arg.installOptional /\ CleanRun) =>
              last.res = "ok" /\ PlanNames = {Str_c}

C16_Witness ==
    /\ last.op = "install" /\ last.res = "ok"
    /\ last.arg.args = <<Str_x, Str_a>>
    /\ PlanNames = {Str_a, Str_b, Str_x}
    /\ Cardinality(last.val.toInstall) = 3

\* C17: install fetches, and plans, only the requested mods, their required
\* dependencies and, with installOptional, their optional dependencies; a
\* conflict is neither fetched nor planned, and an undisturbed install of x,
\* which declares a conflict, succeeds.
C17_OptionalOnlyWhenAsked ==
    last.op = "install" =>
        LET allowed ==
              Requested
              \cup UNION {RequiredOf(n) : n \in Requested}
              \cup (IF last.arg.installOptional
                    THEN UNION {OptionalOf(n) : n \in Requested} ELSE {})
        IN /\ Fetched \subseteq allowed
           /\ PlanNames \subseteq allowed
           /\ (last.arg.args = <<Str_x>> /\ CleanRun) =>
                 /\ last.res = "ok"
                 /\ Str_a \notin Fetched
                 /\ PlanNames = IF last.arg.installOptional
                                THEN {Str_x, Str_b, Str_c} ELSE {Str_x, Str_b}

C17_Witness ==
    /\ last.op = "install" /\ last.res = "ok"
    /\ last.arg.args = <<Str_x>> /\ ~last.arg.installOptional
    /\ PlanNames = {Str_x, Str_b}
    /\ Fetched = {Str_x, Str_b}

\* C18: an install that fails after a fetch was tried has not entered the
\* loop over the plan, and its error wraps the error that caused it.
C18_FailureWrapsCause ==
    (last.op = "install" /\ last.res = "err" /\ last.val.gets # <<>>) =>
        ~last.val.applied /\ last.val.wraps

(***************************************************************************)
(* Properties of the dependency lines                                      *)
(***************************************************************************)
\* What ParseDependency is to return for the line built from a mode, a
\* name and a constraint.
Parsed(mode, name, op, version) ==
    [res |-> "ok", Name |-> name,
     Version |-> IF op = <<>> THEN NoVersion
                 ELSE [Op |-> op, Version |-> NewVersionText(version).val],
     Mode |-> mode]

\* C19: for a line made of an optional prefix, a name of one or more words
\* and an optional operator and version, ParseDependency returns the mode
\* of the prefix (Required for none), the whole name, and the constraint
\* with that operator and version, or none when the line has none.
C19_ParseDependencyGrammar ==
    last.op = "parse" =>
        /\ \A m \in DependencyModes, n \in DependencyNames :
              last.arg.name = DependencyLine(m, n, <<>>, <<>>) =>
                  last.val = Parsed(m, n, <<>>, <<>>)
        /\ \A c \in DependencyModes \X DependencyNames \X DependencyOps
                     \X DependencyVersions :
              last.arg.name = DependencyLine(c[1], c[2], c[3], c[4]) =>
                  last.val = Parsed(c[1], c[2], c[3], c[4])

C19_Witness ==
    /\ last.op = "parse"
    /\ last.arg.name = <<"(", "?", ")", " ">> \o Str_Flow_Control
                         \o <<" ", ">", "=", " ">> \o Str_3_0_5
    /\ last.val.Name = Str_Flow_Control
    /\ last.val.Mode = ModeOptional + ModeHidden
    /\ last.val.Version = [Op |-> <<">", "=">>, Version |-> <<3, 0, 5>>]

\* C20: rendering a dependency and parsing the text gives the dependency
\* back, in name, mode, operator and version, for a required dependency
\* without a constraint and for a hidden optional one with a >= constraint.
C20_RoundTrip ==
    (/\ last.op = "string"
     /\ \/ last.val.d.Mode = ModeRequired /\ last.val.d.Version = NoVersion
        \/ /\ last.val.d.Mode = ModeOptional + ModeHidden
           /\ last.val.d.Version # NoVersion
           /\ last.val.d.Version.Op = <<">", "=">>)
    => /\ last.val.back.res = "ok"
       /\ last.val.back.Name = last.val.d.Name
       /\ last.val.back.Mode = last.val.d.Mode
       /\ last.val.back.Version = last.val.d.Version

\* Dependency{}: what ParseDependency returns beside an error.
NoDependency == [res |-> "err", Name |-> <<>>, Version |-> NoVersion, Mode |-> 0]

\* The line holds one of the characters the operators are made of.
HasOperator(s) == \E i \in DOMAIN s : s[i] \in {"<", ">", "="}

\* C21: a line with an operator followed by a text that is no version makes
\* ParseDependency return an error and no dependency (no zero version); a
\* line without an operator never makes it return an error, and the result
\* has no constraint.
C21_BadVersionFailsNoOperatorNever ==
    last.op = "parse" =>
        /\ \A c \in DependencyModes \X DependencyNames \X DependencyOps
                     \X BadVersions :
              last.arg.name = DependencyLine(c[1], c[2], c[3], c[4]) =>
                  last.res = "err" /\ last.val = NoDependency
        /\ ~HasOperator(last.arg.name) =>
              last.res = "ok" /\ last.val.Version = NoVersion

C21_Witness ==
    /\ last.op = "parse"
    /\ last.arg.name = Str_flib \o <<" ", ">", "=", " ", "x">>
    /\ last.res = "err"
    /\ last.val = NoDependency

\* C22: for the empty line and for a line that is a prefix and nothing
\* else, ParseDependency returns without an error a dependency with the
\* empty name, the mode of the prefix and no constraint.
C22_EmptyAfterPrefixAccepted ==
    last.op = "parse" =>
        \A m \in DependencyModes :
            last.arg.name = ModeString(m) =>
                last.val = [res |-> "ok", Name |-> <<>>, Version |-> NoVersion,
                            Mode |-> m]

C22_Witness ==
    /\ last.op = "parse"
    /\ last.arg.name = <<"(", "?", ")">>
    /\ last.res = "ok"
    /\ last.val.Name = <<>>
    /\ last.val.Mode = ModeOptional + ModeHidden

\* The dependencies of ds whose mode is one of modes, in the order of ds.
RECURSIVE WithModeIn(_, _)
WithModeIn(ds, modes) ==
    IF ds = <<>> THEN <<>>
    ELSE (IF Head(ds).Mode \in modes THEN <<Head(ds)>> ELSE <<>>)
         \o WithModeIn(Tail(ds), modes)

\* C30: Info.Dependencies puts every declared dependency in exactly one of
\* Required, Optional and Conflicts, in the order of declaration: in
\* Optional when its Optional bit is set, with or without Hidden, in
\* Conflicts when it is a conflict, and in Required otherwise, the
\* dependencies that do not affect the load order included; when a line
\* fails to parse no list is returned.
C30_DependenciesPartition ==
    last.op = "dependencies" =>
        LET lines == last.arg.args
            parsed == [i \in DOMAIN lines |-> ParseDependency(lines[i])]
        IN
        IF \E i \in DOMAIN lines : parsed[i].res # "ok"
        THEN /\ last.res = "err"
             /\ last.val.Required = <<>>
             /\ last.val.Optional = <<>>
             /\ last.val.Conflicts = <<>>
        ELSE /\ last.res = "ok"
             /\ last.val.Optional =
                   WithModeIn(parsed, {ModeOptional, ModeOptional + ModeHidden})
             /\ last.val.Conflicts = WithModeIn(parsed, {ModeConflict})
             /\ last.val.Required =
                   WithModeIn(parsed, {ModeRequired, ModeNoAffectLoadOrder})
             /\ Len(last.val.Required) + Len(last.val.Optional)
                   + Len(last.val.Conflicts) = Len(lines)

C30_Witness ==
    /\ last.op = "dependencies"
    /\ last.res = "ok"
    /\ last.arg.args = <<<<"~", " ", "x">>, <<"(", "?", ")", " ", "x">>,
                         <<"!", " ", "x">>>>
    /\ Len(last.val.Required) = 1 /\ last.val.Required[1].Mode = ModeNoAffectLoadOrder
    /\ Len(last.val.Optional) = 1 /\ last.val.Optional[1].Mode = ModeOptional + ModeHidden
    /\ Len(last.val.Conflicts) = 1 /\ last.val.Conflicts[1].Mode = ModeConflict

(***************************************************************************)
(* Properties of the versions                                              *)
(***************************************************************************)
V(major, minor, patch) == [Major |-> major, Minor |-> minor, Patch |-> patch]

\* The version each text stands for when a field that is missing or no
\* number counts as 0.
LenientVersion ==
    (<<"1", ".", "2", ".", "3">> :> V(1, 2, 3))
    @@ (<<"1", ".", "2", ".", "4">> :> V(1, 2, 4))
    @@ (<<"2", ".", "0", ".", "0">> :> V(2, 0, 0))
    @@ (<<"1", ".", "9", ".", "9">> :> V(1, 9, 9))
    @@ (<<"1", ".", "1", "0", ".", "0">> :> V(1, 10, 0))
    @@ (<<"1">> :> V(1, 0, 0))
    @@ (<<"1", ".", "2">> :> V(1, 2, 0))
    @@ (<<>> :> V(0, 0, 0))
    @@ (<<"x">> :> V(0, 0, 0))
    @@ (<<"1", ".", "x", ".", "3">> :> V(1, 0, 3))
    @@ (<<"x", ".", "2">> :> V(0, 2, 0))
    @@ (<<"1", ".", "2", ".", "3", ".", "4">> :> V(1, 2, 0))
    @@ (<<"-", "1", ".", "+", "2">> :> V(-1, 2, 0))
    @@ (<<"1", "_", "2">> :> V(0, 0, 0))
    @@ (<<".">> :> V(0, 0, 0))
    @@ (<<"1", ".", ".", "3">> :> V(1, 0, 3))

\* C23: parseVersion returns a Version for every text, a field that is
\* missing or no number being 0, and the version of a file name matching
\* <name>_*.zip is always obtained, the zero version when its version part
\* is malformed.
C23_LenientVersionTotal ==
    /\ last.op = "parseVersion" =>
          /\ last.arg.name \in DOMAIN LenientVersion
          /\ last.val = LenientVersion[last.arg.name]
    /\ last.op = "version" =>
          /\ last.res = "ok"
          /\ \A v \in VersionTexts :
                (last.arg.name = Str_x \o <<"_">> \o v \o Str_zip
                 /\ \A i \in DOMAIN v : v[i] # "_")
                => last.val = LenientVersion[v]
          /\ last.arg.name \in {Str_x \o <<"_">> \o v \o Str_zip :
                                   v \in {<<>>, <<"x">>, <<".">>}}
             => last.val = ZeroVersion

C23_Witness ==
    /\ last.op = "version"
    /\ last.arg.name = <<"x", "_", "x", ".", "z", "i", "p">>
    /\ last.res = "ok"
    /\ last.val = ZeroVersion

\* a comes before b in the order of (major, minor, patch).
VersionLess(a, b) ==
    \/ a.Major < b.Major
    \/ a.Major = b.Major /\ a.Minor < b.Minor
    \/ a.Major = b.Major /\ a.Minor = b.Minor /\ a.Patch < b.Patch

Count(seq, v) == Cardinality({i \in DOMAIN seq : seq[i] = v})

\* C24: the versions of an installed mod are in ascending order of (major,
\* minor, patch), the last one being the greatest, they are the versions of
\* the matching files, and the comparison they are sorted with is negative,
\* zero or positive as that order has it for every pair of versions.
C24_VersionsAscending ==
    last.op = "findInstalledVersions" =>
        LET vs == last.val
            files == SelectSeq(last.arg.args, LAMBDA f : GlobMatch(Str_x, f))
            found == [i \in DOMAIN files |-> modpathVersion(files[i]).val]
            all == {LenientVersion[t] : t \in DOMAIN LenientVersion}
        IN
        /\ last.res = "ok"
        /\ Len(vs) = Len(files)
        /\ \A v \in all : Count(vs, v) = Count(found, v)
        /\ \A i, j \in DOMAIN vs : i < j => ~VersionLess(vs[j], vs[i])
        /\ vs # <<>> => \A i \in DOMAIN vs : ~VersionLess(vs[Len(vs)], vs[i])
        /\ \A a, b \in all :
              /\ CompareVersions(a, b) < 0 <=> VersionLess(a, b)
              /\ CompareVersions(a, b) > 0 <=> VersionLess(b, a)
              /\ CompareVersions(a, b) = 0 <=> a = b

C24_Witness ==
    /\ last.op = "findInstalledVersions"
    /\ last.arg.args =
          <<<<"x", "_", "2", ".", "0", ".", "0", ".", "z", "i", "p">>,
            <<"x", "_", "1", ".", "9", ".", "9", ".", "z", "i", "p">>>>
    /\ last.val = <<V(1, 9, 9), V(2, 0, 0)>>

(***************************************************************************)
(* Properties of the page requests of Pull                                 *)
(***************************************************************************)
\* The positions of the trace at which page i is requested, decoded, encoded.
EventsAt(trace, ev, i) ==
    {p \in DOMAIN trace : trace[p] = PullEvent(ev, i)}

\* The pages from page `from` on are requested one after another: in
\* ascending order, each at most once, page i + 1 only once page i has
\* been decoded and its results encoded into the staged stream, and none
\* after the request that failed.
PullSequentialFrom(trace, res, from) ==
    LET gets == SelectSeq(trace, LAMBDA e : e.ev = "get") IN
    /\ \A k \in DOMAIN gets : gets[k].page = k
    /\ \A i \in from..Len(gets) - 1 :
          \A g \in EventsAt(trace, "get", i + 1) :
             /\ \E d \in EventsAt(trace, "decode", i) : d < g
             /\ \E a \in EventsAt(trace, "encode", i) : a < g
    /\ res = "err" => trace[Len(trace)].ev = "get"

\* C27: Pull requests the pages in ascending order, each at most once, the
\* next one only after the page before it has been decoded and appended to
\* the staged stream, and none after the first failing page.
C27_PullPagesSequential ==
    last.op = "Pull" => PullSequentialFrom(last.trace, last.res, 1)

(***************************************************************************)
(* Properties of the rows Update writes                                    *)
(***************************************************************************)
\* The rows of a table with name n; the table holds one row of that name,
\* in one copy.
NamedIn(table, n) == {r \in DOMAIN table : r.name = n}
OneRow(table, n) ==
    \E r \in DOMAIN table : NamedIn(table, n) = {r} /\ table[r] = 1

\* The names of the entries of a stream, and its last entry with name n.
StreamNames(stream) == {Decode(stream[i]).name : i \in DOMAIN stream}
LastNamed(stream, n) ==
    LET at == {i \in DOMAIN stream : Decode(stream[i]).name = n} IN
    Decode(stream[CHOOSE i \in at : \A j \in at : j <= i])

\* The rows of a table for the names outside ns.
Others(table, ns) ==
    [r \in {x \in DOMAIN table : x.name \notin ns} |-> table[r]]

\* C28: a successful Update leaves, for every name of the stream it
\* ingested, exactly one mods row and one latest_releases row, those of the
\* last entry of the stream with that name, and leaves the rows of all other
\* names as they were; no table ever holds two rows of one name.
C28_OneLatestRowPerName ==
    [][/\ \A n \in {r.name : r \in DOMAIN mods'} : OneRow(mods', n)
       /\ \A n \in {r.name : r \in DOMAIN latest_releases'} :
             OneRow(latest_releases', n)
       /\ (last'.op = "Update" /\ last'.res = "ok") =>
             LET stream == dirs'[cachedResultsPath'].stream
                 ns == StreamNames(stream)
             IN
             /\ \A n \in ns :
                   /\ NamedIn(mods', n) = {ModRow(LastNamed(stream, n))}
                   /\ NamedIn(latest_releases', n) =
                         {ReleaseRow(LastNamed(stream, n))}
             /\ Others(mods', ns) = Others(mods, ns)
             /\ Others(latest_releases', ns) =
                   Others(latest_releases, ns)]_vars

\* An Update has succeeded on the stream of ab2 and axb after an earlier
\* stream had brought ab1 and AB: the row of ab is that of ab2, the row of
\* AB is still there.
C28_Witness ==
    /\ last.op = "Update"
    /\ last.res = "ok"
    /\ dirs[cachedResultsPath].stream = <<"ab2", "axb">>
    /\ NamedIn(mods, Str_ab) = {ModRow(Entry_ab2)}
    /\ NamedIn(latest_releases, Str_AB) = {ReleaseRow(Entry_AB)}

\* C29: in every state every mods row has its category in categories and a
\* latest_releases row of its name; and a successful Update has ingested
\* every entry of its stream, whatever its category: the category is in
\* categories and the mod has its rows.
C29_RowsReferToCategoryAndRelease ==
    /\ \A m \in DOMAIN mods :
          /\ m.category \in DOMAIN categories
          /\ NamedIn(latest_releases, m.name) # {}
    /\ (last.op = "Update" /\ last.res = "ok") =>
          \A i \in DOMAIN dirs[cachedResultsPath].stream :
             LET e == Decode(dirs[cachedResultsPath].stream[i]) IN
             /\ e.category \in DOMAIN categories
             /\ NamedIn(mods, e.name) # {}
             /\ NamedIn(latest_releases, e.name) # {}

\* An Update had written entries when it failed, after an earlier Update
\* had ingested ab2, whose category brand-new no entry before it had.
C29_Witness ==
    /\ last.op = "Update"
    /\ last.res = "err"
    /\ last.wrote
    /\ ModRow(Entry_ab2) \in DOMAIN mods
    /\ "brand-new" \in DOMAIN categories

(***************************************************************************)
(* Properties of concurrent calls                                          *)
(***************************************************************************)
\* C25: whoever has a transaction open holds c.mu, so at most one
\* transaction is open on the handle at a time.
C25_TransactionsUnderMutex ==
    /\ \A t \in Threads : calls[t].tx => mu = t
    /\ Cardinality({t \in Threads : calls[t].tx}) <= 1

\* C26: once its context is cancelled while its transaction is open, no
\* step of an Update changes the tables, and the Update returns an error.
C26_CancelledUpdateCommitsNothing ==
    [][\A t \in Threads :
          (/\ calls[t].op = "Update"
           /\ calls[t].cancelled
           /\ calls'[t] # calls[t])
          => /\ store' = store
             /\ calls'[t].pc = "done" => calls'[t].res = "err"]_vars

\* An Update whose context was cancelled while its transaction was open
\* has returned an error; the staged stream has entries and the tables are
\* empty.
C26_Witness ==
    \E t \in Threads :
       /\ calls[t].op = "Update"
       /\ calls[t].cancelled
       /\ calls[t].pc = "done"
       /\ calls[t].res = "err"
       /\ mods = <<>>
       /\ dirs[cachedResultsPath].stream # <<>>

(***************************************************************************)
(* Further properties of the versions                                      *)
(***************************************************************************)
NonNegative(v) == v.Major >= 0 /\ v.Minor >= 0 /\ v.Patch >= 0

\* C31: every Version that parseVersion returns, for a text or for the
\* version part of a file name, has a major, a minor and a patch number that
\* are not negative.
C31_ComponentsNonNegative ==
    /\ last.op \in {"parseVersion", "version"} => NonNegative(last.val)
    /\ last.op = "findInstalledVersions" =>
          \A i \in DOMAIN last.val : NonNegative(last.val[i])

(***************************************************************************)
(* Further properties of the ingestion                                     *)
(***************************************************************************)
\* C32: an Update that follows a successful Clean finds nothing staged: it
\* runs the implicit Pull, and it does not fail on a results file that is
\* no longer there.
C32_UpdateAfterCleanPulls ==
    [][(/\ last.op = "Clean"
        /\ last.res = "ok"
        /\ last'.op = "Update")
       => /\ last'.reqs # <<>>
          /\ ~(/\ last'.res = "err"
               /\ cachedResultsPath' # NoPath
               /\ ~dirs'[cachedResultsPath'].exists)]_vars

\* C33: an Update made with the progress bar off that meets no error
\* completes, and leaves in the tables what it leaves with the progress bar
\* on: the entries of the staged stream.
C33_UpdateWithoutProgressBar ==
    [][(/\ last'.op = "Update"
        /\ ~showProgressBar
        /\ last'.res # "err")
       => LET db == DB(categories, mods, latest_releases)
              stream == dirs'[cachedResultsPath'].stream
              on == UpdateFn(db, stream, NoFail, TRUE)
          IN
          /\ last'.res = "ok"
          /\ DB(categories', mods', latest_releases') = on.db]_vars

(***************************************************************************)
(* Further properties of the lookups                                       *)
(***************************************************************************)
\* C34: the path a successful Get returns is that of a file holding the
\* whole response body of a download, never that of a file a failed
\* download left behind.
C34_GetReturnsCompleteArtifact ==
    (last.op = "Get" /\ last.res = "ok") =>
        \A f \in modFiles : f.path = last.val => f.complete

(***************************************************************************)
(* Further properties of the installed versions                            *)
(***************************************************************************)
\* The file is an archive of the mod name: <name>_<version>.zip, the
\* version having no underscore.
ArtifactOf(name, file) ==
    /\ GlobMatch(name, file)
    /\ \A i \in Len(name) + 2..Len(file) : file[i] # "_"

\* C35: the Versions of the installed mod x are the versions of the
\* archives of x in the directory, one for each; the archive of an other
\* mod whose name begins with x_ adds none.
C35_VersionsOfThisModOnly ==
    last.op = "findInstalledVersions" =>
        LET own == SelectSeq(last.arg.args, LAMBDA f : ArtifactOf(Str_x, f))
            found == [i \in DOMAIN own |-> modpathVersion(own[i]).val]
        IN
        /\ Len(last.val) = Len(own)
        /\ \A i \in DOMAIN last.val : Count(last.val, last.val[i])
                                        = Count(found, last.val[i])

(***************************************************************************)
(* Further properties of the dependency lines                              *)
(***************************************************************************)
\* C36: whatever the order in which the four prefixes are tried,
\* ParseDependency returns the same mode, name and constraint for a line.
C36_ParseIndependentOfMapOrder ==
    last.op = "parse" =>
        \A o \in MapOrders : ParseDependencyIn(last.arg.name, o) = last.val

\* A line with the prefix (?) and a constraint has been parsed.
C36_Witness ==
    /\ last.op = "parse"
    /\ last.res = "ok"
    /\ HasPrefix(last.arg.name, <<"(", "?", ")">>)
    /\ last.val.Mode = ModeHidden + ModeOptional
    /\ last.val.Version # NoVersion

====
